---- MODULE Spec2Model ----
(***************************************************************************)
(* Control loop of the browser agent (Agent.run / Agent.runStream), with   *)
(* the browser handle, the conversation log and the event stream it        *)
(* drives.  Every await on an external collaborator (image loading,        *)
(* navigation, capture, model call, action handler, image scaling,         *)
(* storage state) is a suspension point; the code between two suspension   *)
(* points runs atomically, as on the JavaScript event loop.                *)
(***************************************************************************)
EXTENDS Integers, Sequences, FiniteSets, TLC

\* ---------------------------------------------------------------- bounds
MaxStepsCap == 2        \* largest explicit maxSteps argument explored
StepBound == 2          \* no step with number >= StepBound is begun
MaxCalls == 3           \* updateState calls made on the Browser checked alone
MaxLog == 5             \* longest conversation of the MessageManager checked alone
MaxCoord == 2           \* largest coordinate of the rectangles given to calculateIou
MaxElems == 3           \* longest list of elements given to the element resolver
MaxLeft == 1            \* left edges of the elements are 0..MaxLeft
MaxWidth == 6           \* widths of the elements to be filtered are 1..MaxWidth
MaxWeight == 2          \* weights of the elements to be filtered are 1..MaxWeight
MaxZ == 1               \* z-indices of the elements to be filtered are 0..MaxZ
MaxRetriesOption == 2   \* options.maxRetries of AISdkAdapter.call is omitted or 0..MaxRetriesOption
MaxLabels == 2          \* most elements labelled on one screenshot
LabelGrid == 10         \* edges of the labelled elements are multiples of it,
MaxGrid == 3            \*   from -LabelGrid to MaxGrid * LabelGrid
ImageSide == 40         \* width and height of the larger screenshot
MaxCycles == 2          \* capture cycles of one browser
MaxDetected == 2        \* most elements detected in one capture cycle
ElemHeight == 10        \* height of every element
TopStep == 15           \* top edges of the elements to be sorted: multiples of it,
MaxRows == 2            \*   up to MaxRows * TopStep, and the two around ROW_THRESHOLD

\* ------------------------------------------------------- program constants
DefaultMaxSteps == 100  \* maxSteps = 100 default parameter
NumOfAttempts == 3      \* backOff numOfAttempts
StartingDelay == 500    \* backOff startingDelay, in milliseconds
TimeMultiple == <<3, 2>> \* backOff timeMultiple 1.5, as a fraction

IouThreshold == <<7, 10>> \* iouThreshold = 0.7 default parameter, as a fraction
RowThreshold == 20      \* ROW_THRESHOLD, in pixels
AdapterAttempts == 3    \* options.maxRetries || 3
TextWidth == 10         \* textWidth, approximate width of a digit
TextHeight == 12        \* textHeight, approximate font height
LabelPadding == 4       \* labelWidth = textWidth + 4, labelHeight = textHeight + 4
LabelGap == 2           \* labelY = existing.bottom + 2
TooManyRequests == 429  \* error.status === 429
ServerError == 500      \* error.status >= 500
HalfArea == <<1, 2>>    \* the factor 0.5 of the area test, as a fraction

Omitted == -1           \* an optional numeric argument that was not passed

VARIABLES
  args,           \* arguments of the call: mode, maxSteps, timeout, ...
  pcSetup,        \* position of setupMessages
  pcLoop,         \* position of the run / the stream's loop
  step,           \* let step
  isDone,         \* let isDone
  result,         \* let result (NoResult = undefined)
  stepState,      \* const state of the step in flight ("init" has no screenshot)
  action,         \* modelOutput.action.name of the step in flight
  messages,       \* MessageManager._messages
  pendingAdds,    \* addMessageFromModelOutput calls suspended in scaleB64Image
  browser,        \* Browser: open = browser/currentPage set, state = this.state
  closeCalls,     \* number of Browser.close() calls
  attemptsSetup,  \* capture attempts of setupMessages' updateState
  attemptsLoop,   \* capture attempts of the step's updateState
  events,         \* chunks enqueued on the stream
  streamCloses,   \* number of controller.close() calls
  cancelled,      \* consumer cancelled the stream
  runOutcome,     \* promise returned by run(): pending / resolved / rejected
  output,         \* AgentOutput a resolved run() carries
  modelCalls,     \* number of llm.call invocations
  actionExecs,    \* number of action handlers invoked
  captureStarts,  \* number of updateState calls made by step()
  timedOut,       \* Date.now() - startTime > timeout
  timeoutFound,   \* the elapsed-time test was evaluated and found exceeded
  stepFailed,     \* some step threw
  seenAtCall,     \* the conversation handed to the latest llm.call
  logBefore,      \* the conversation when the step's capture returned,
                  \* before the step appended anything
  genFailed,      \* generateAction threw (model call or parsing)
  malformed,      \* what the latest model response lacked: "none", "noAction", "noParams"
  execError,      \* the error controller.executeAction threw, NoError if none
  \* one Browser on its own: updateState calls under a scripted capture
  thisState,      \* Browser.state: StateUndefined, StateInit or a snapshot number
  lastGood,       \* snapshot of the latest successful capture, 0 if none
  closedSince,    \* close() was called after that capture
  failScript,     \* number of leading attempts of this call whose capture fails
  attemptNo,      \* number of the attempt in flight, 0 between calls
  lastCall,       \* how the latest updateState call settled
  callCount,      \* updateState calls made
  snapCount,      \* snapshots built
  delayBefore,    \* the delay backOff awaited before the attempt in flight
  attemptsMade,   \* capture attempts started by the call in flight
  \* one MessageManager on its own
  cLog,           \* MessageManager._messages
  cLast,          \* the operation applied last
  cMarker,        \* at a read: index of the latest marked message before it
  cJson,          \* JSON.stringify of the exported state, <<>> if none
  cExported,      \* the conversation getState() returned, <<>> if none
  \* one Controller.executeAction call and the recording of its model turn
  kRegistry,      \* Controller._actions: name -> browserContext
  kAction,        \* the ActionModel of the model output: name and params
  kEntry,         \* what executeAction found under that name, "none" before
  kParams,        \* the params object, shared by executeAction and the recording
  kHandlerGot,    \* the params the handler was called with
  kRecorded,      \* the params in the assistant message
  kPc,            \* which of the two has happened
  \* the element resolver applied to a list of elements
  gElems,         \* the list handed to filterElements / sortElementsByPosition
  gOut,           \* what the function returned
  gPhase,         \* "input", or the function that was applied
  gFirst,         \* the result of the first of two applications in a row
  \* calculateIou applied to two rectangles
  rectA,
  rectB,
  iouOut,         \* the value returned, as <<numerator, denominator>>
  \* AISdkAdapter.call
  aOptions,       \* the options of the call, and whether a fallback provider exists
  aPc,            \* "idle", "primary", "fallback", "returned", "threw"
  aPrimary,       \* the error statuses of the primary provider's attempts, in order
  aFallback,      \* the error statuses of the fallback provider's attempts, in order
  aResult,        \* the provider that answered, or the status of the error thrown
  \* putHighlightElementsOnScreenshot: the labels
  lImage,         \* metadata.width and metadata.height
  lPlaced,        \* placedLabels
  lDrawn,         \* the label rectangles of the label SVGs, in order
  \* Browser._updateState: the elements and the images of the state
  yPc,            \* "new" before the constructor, then "ready"
  yDetector,      \* config.detector is set
  yState,         \* this.state: screenshot, screenshotWithHighlights, interactiveElements
  yCandidates,    \* the elements detected in the latest capture cycle
  yCycles,        \* capture cycles started
  yOutcome,       \* how the latest cycle settled: "none", "fresh", "stale"
  yAnnotation,    \* the annotation of the latest cycle: "none", "drawn", "failed"
  yThrew          \* the call of the latest cycle that threw, or "none"

histVars == <<logBefore, genFailed, execError, malformed>>

agentVars == <<args, pcSetup, pcLoop, step, isDone, result, stepState, action,
               messages, pendingAdds, browser, closeCalls, attemptsSetup,
               attemptsLoop, events, streamCloses, cancelled, runOutcome,
               output, modelCalls, actionExecs, captureStarts, timedOut,
               timeoutFound, stepFailed, seenAtCall, histVars>>

browserVars == <<thisState, lastGood, closedSince, failScript, attemptNo,
                 lastCall, callCount, snapCount, delayBefore, attemptsMade>>

convVars == <<cLog, cLast, cMarker, cJson, cExported>>

ctrlVars == <<kRegistry, kAction, kEntry, kParams, kHandlerGot, kRecorded, kPc>>

geoVars == <<gElems, gOut, gPhase, gFirst>>

iouVars == <<rectA, rectB, iouOut>>

adapterVars == <<aOptions, aPc, aPrimary, aFallback, aResult>>

labelVars == <<lImage, lPlaced, lDrawn>>

cycleVars == <<yPc, yDetector, yState, yCandidates, yCycles, yOutcome,
               yAnnotation, yThrew>>

sideVars == <<adapterVars, labelVars, cycleVars>>

pureVars == <<ctrlVars, geoVars, iouVars, sideVars>>

vars == <<agentVars, browserVars, convVars, pureVars>>

\* ------------------------------------------------------------------ values
ArgSet ==
  { a \in [mode : {"run", "stream"}, maxSteps : Omitted .. MaxStepsCap,
           timeout : BOOLEAN, startUrl : BOOLEAN, resume : BOOLEAN,
           returnStorageState : BOOLEAN, prompt : BOOLEAN] :
      \* a call without prompt is explored for run() called with nothing
      \* else; with agentState the prompt is only the follow-up text, and
      \* runStream does not look at it before setupMessages
      /\ (~a.prompt => (a.mode = "run" /\ ~a.resume /\ ~a.startUrl
                         /\ a.maxSteps = Omitted))
      /\ (a.mode = "run" => ~a.timeout)      \* run() has no timeout parameter
      \* in run() getStorageState is awaited inside the finally block, where
      \* nothing else is in flight; the flag only matters to the stream
      /\ (a.mode = "run" => ~a.returnStorageState)
      /\ (a.resume => ~a.startUrl) }         \* startUrl is ignored on resume

\* maxSteps = 100 default parameter of run and runStream
MaxSteps == IF args.maxSteps = Omitted THEN DefaultMaxSteps ELSE args.maxSteps

\* let result: ActionResult | undefined;  src = number of the step (1-based)
\* whose action returned the outcome, 0 for none
NoResult == [isDone |-> FALSE, giveControl |-> FALSE, error |-> FALSE, src |-> 0]

\* result || { error: "No result produced" }
NoResultProduced == [isDone |-> FALSE, giveControl |-> FALSE, error |-> TRUE, src |-> 0]

NoOutput == [result |-> NoResult, stepCount |-> -1]

DoneActions == {"done", "done_with_structured_output", "give_human_control"}

\* registered actions: the three terminal ones and the browser actions
\* (click_element, go_to_url, ...), all of which use the browser handle
RegisteredActions == DoneActions \cup {"browse"}

\* names the model can put into its output: a registered one, one that is
\* not registered, and one that is not registered but is a property every
\* object inherits (this._actions is a plain object)
ActionNames == RegisteredActions \cup {"unregistered", "constructor"}

\* the errors executeAction throws: the action name is part of the message
NoError == [kind |-> "none", name |-> ""]

NotFoundError(name) == [kind |-> "Action not found", name |-> name]

\* an execution error whose message does not say which action failed
ExecutionErrorNoName(name) == [kind |-> "Error executing action", name |-> ""]

ExecutionError(name) == [kind |-> "Error executing action", name |-> name]

\* executeAction with a name for which this._actions[name] yields no
\* registered entry: undefined throws "not found"; an inherited property is
\* truthy, its .function is undefined and the call throws inside the try
LookupError(name) ==
  IF name = "constructor" THEN ExecutionError(name) ELSE NotFoundError(name)

\* no ActionModel, no rectangle
\* a params object: its own model-supplied keys, and what its browser property
\* holds ("absent", a value the model wrote, or the Browser handle); given is
\* FALSE for an ActionModel without params
ParamKeys == {"index", "text"}

NoParams == [given |-> TRUE, keys |-> {}, browser |-> "absent"]

ParamsUndefined == [given |-> FALSE, keys |-> {}, browser |-> "absent"]

SuppliedParams ==
  {ParamsUndefined}
    \cup [given : {TRUE}, keys : SUBSET ParamKeys, browser : {"absent", "model"}]

NoAction == [name |-> "none", params |-> ParamsUndefined]

NotStarted == [recorded |-> "no", executed |-> "no"]

\* a Rect as getBoundingClientRect gives it: right = left + width,
\* bottom = top + height
Rect(left, top, width, height) ==
  [left |-> left, top |-> top, right |-> left + width, bottom |-> top + height,
   width |-> width, height |-> height]

\* the rectangle both arguments of calculateIou start from
UnitRect == Rect(0, 0, 1, 1)

\* what the handler of a registered action returns in the k-th step
HandlerResult(name, k, err) ==
  IF name \in {"done", "done_with_structured_output"}
    THEN [isDone |-> TRUE, giveControl |-> FALSE, error |-> FALSE, src |-> k]
  ELSE IF name = "give_human_control"
    THEN [isDone |-> TRUE, giveControl |-> TRUE, error |-> FALSE, src |-> k]
  ELSE [isDone |-> FALSE, giveControl |-> FALSE, error |-> err, src |-> k]

\* ---------------------------------------------------------------- messages
\* A message of the conversation:
\*   role     system / user / assistant
\*   kind     what its first text part is: the system prompt, the task
\*            preamble, a full perception (state), the compact per-step
\*            state, or the model's output
\*   isState  isStateMessage is set
\*   cc       some text part has cacheControl = true
\*   image    "none": no image part, "data": image parts with data,
\*            "undefined": image parts whose imageB64 is undefined (the
\*            state had no screenshot)
\*   tags     the tags its first text part carries
Msg(role, kind, isState, cc, image, tags) ==
  [role |-> role, kind |-> kind, isState |-> isState, cc |-> cc,
   image |-> image, tags |-> tags]

SystemMsg == Msg("system", "system", FALSE, FALSE, "none", {})

\* the user message of addSystemMessageAndUserPrompt: demo images, one text
\* part with cacheControl: true, the task
TaskMsg == Msg("user", "task", FALSE, TRUE, "data", {})

AssistantMsg == Msg("assistant", "assistant", FALSE, FALSE, "none", {})

\* an ActionResult of a default action carries content unless it carries error
HasContent(r) == r.src > 0 /\ ~r.error

\* a perception that reports the error of the previous action as its output
StateMsgErrorAsOutput(st, prev, followUp) ==
  Msg("user", "state", FALSE, FALSE,
      IF st = "snap" THEN "data" ELSE "undefined",
      (IF prev # NoResult THEN {"previous_action_output"} ELSE {})
        \cup (IF followUp THEN {"user_follow_up_message"} ELSE {}))

\* addCurrentStateMessage(state, previousResult, userFollowUpMessage): the
\* tags of stateDescription; st is the state's screenshot ("snap") or not
StateMsg(st, prev, followUp) ==
  Msg("user", "state", FALSE, FALSE,
      IF st = "snap" THEN "data" ELSE "undefined",
      (IF prev # NoResult /\ HasContent(prev) THEN {"previous_action_output"} ELSE {})
        \cup (IF prev # NoResult /\ prev.error THEN {"previous_action_error"} ELSE {})
        \cup (IF followUp THEN {"user_follow_up_message"} ELSE {}))

\* the usrMsg of addMessageFromModelOutput (isStateMessage: true)
CompactMsg(prev) ==
  Msg("user", "cstate", TRUE, TRUE, "data",
      (IF HasContent(prev) THEN {"action_output"} ELSE {})
        \cup (IF prev.error THEN {"action_error"} ELSE {}))

\* addMessageFromModelOutput: msg.content = [msg.content[0]] for state messages
ReduceStateMessage(m) == IF m.isState THEN [m EXCEPT !.image = "none"] ELSE m

ReduceAll(log) == [i \in DOMAIN log |-> ReduceStateMessage(log[i])]

\* MessageManager.getMessages: walk the log from its end; once a message
\* with a cache marker has been seen, clear the marker of every earlier
\* non-system message
RECURSIVE ClearPastCacheControl(_, _, _)
ClearPastCacheControl(log, i, found) ==
  IF i = 0 THEN log
  ELSE IF log[i].role = "system" THEN ClearPastCacheControl(log, i - 1, found)
  ELSE LET log2 == IF found THEN [log EXCEPT ![i].cc = FALSE] ELSE log
       IN ClearPastCacheControl(log2, i - 1, found \/ log2[i].cc)

\* a read that leaves every marker in place
GetMessagesNoClear(log) == log

GetMessages(log) == ClearPastCacheControl(log, Len(log), FALSE)

\* JSON.stringify of a message: a property whose value is undefined is left
\* out (isStateMessage of the other messages, imageB64 of a state without
\* screenshot)
StringifyMsg(m) ==
  [k \in {"role", "kind", "cc", "tags", "image"}
          \cup (IF m.isState THEN {"isState"} ELSE {}) |->
     CASE k = "role" -> m.role
       [] k = "kind" -> m.kind
       [] k = "cc" -> m.cc
       [] k = "tags" -> m.tags
       [] k = "image" -> IF m.image = "undefined" THEN "nodata" ELSE m.image
       [] OTHER -> TRUE]

\* a parse that loses isStateMessage
ParseMsgLossy(j) ==
  Msg(j.role, j.kind, FALSE, j.cc,
      IF j.image = "nodata" THEN "undefined" ELSE j.image, j.tags)

\* JSON.parse, as the code reads the message afterwards: a missing property
\* reads as undefined
ParseMsg(j) ==
  Msg(j.role, j.kind, "isState" \in DOMAIN j, j.cc,
      IF j.image = "nodata" THEN "undefined" ELSE j.image, j.tags)

StringifyState(log) == [i \in DOMAIN log |-> StringifyMsg(log[i])]

ParseState(json) == [i \in DOMAIN json |-> ParseMsg(json[i])]

\* the conversation an earlier run exported through getState()
ExportedLog == GetMessages(<<SystemMsg, TaskMsg, AssistantMsg>>)

\* JSON.parse(agentState).messages
ResumedLog == ParseState(StringifyState(ExportedLog))

\* Browser.state of the Browser on its own: undefined after close(), the
\* empty state of initState(), or the number (1, 2, ...) of a snapshot
StateUndefined == -1

StateInit == 0

\* no updateState call has settled yet
NoCall == [how |-> "none", value |-> 0, retries |-> 0, script |-> 0,
           goodBefore |-> 0, closedBefore |-> FALSE, stateBefore |-> 0]

\* MessageManager.removeLastMessage
RemoveLastMessage(m) == IF Len(m) > 1 THEN SubSeq(m, 1, Len(m) - 1) ELSE m

ClosedBrowser == [open |-> FALSE, state |-> "undef"]

\* Browser.initBrowser, reached through if (!this.currentPage)
InitBrowser(b, launchOk) ==
  IF ~b.open /\ launchOk THEN [b EXCEPT !.open = TRUE] ELSE b

Event(type, r, n) == [type |-> type, src |-> r.src, stepCount |-> n]

TerminalTypes == {"final_output", "step_timeout", "error"}

\* -------------------------------------------------------------------- Init
\* no updateState call has been made on the Browser
BrowserInit ==
  /\ thisState = StateInit                    \* constructor: initState()
  /\ lastGood = 0
  /\ closedSince = FALSE
  /\ failScript = 0
  /\ attemptNo = 0
  /\ lastCall = NoCall
  /\ callCount = 0
  /\ snapCount = 0
  /\ delayBefore = 0
  /\ attemptsMade = 0

\* a MessageManager after construction
ConvInit ==
  /\ cLog = <<>>
  /\ cLast = "none"
  /\ cMarker = 0
  /\ cJson = <<>>
  /\ cExported = <<>>

\* an Agent after construction, to be run with one of the argument records
AgentInit(argSet) ==
  /\ args \in argSet
  /\ pcSetup = "idle"
  /\ pcLoop = "idle"
  /\ step = 0
  /\ isDone = FALSE
  /\ result = NoResult
  /\ stepState = "none"
  /\ action = "none"
  /\ messages = <<>>
  /\ pendingAdds = {}
  /\ browser = [open |-> FALSE, state |-> "init"]   \* constructor: initState()
  /\ closeCalls = 0
  /\ attemptsSetup = 0
  /\ attemptsLoop = 0
  /\ events = <<>>
  /\ streamCloses = 0
  /\ cancelled = FALSE
  /\ runOutcome = "pending"
  /\ output = NoOutput
  /\ modelCalls = 0
  /\ actionExecs = 0
  /\ captureStarts = 0
  /\ timedOut = FALSE
  /\ timeoutFound = FALSE
  /\ stepFailed = FALSE
  /\ seenAtCall = <<>>
  /\ logBefore = <<>>
  /\ genFailed = FALSE
  /\ execError = NoError
  /\ malformed = "none"

\* registerDefaultActions: the actions that take part here, with the
\* browserContext they are registered with
DefaultActions ==
  [n \in {"done", "wait_for_page_to_load", "click_element", "enter_text"}
     |-> n \in {"click_element", "enter_text"}]

\* the n-th screenshot taken, plain or with the highlights drawn on it
Screenshot(n, highlighted) == [n |-> n, highlighted |-> highlighted]

\* initState(): no screenshot, no elements
ElementStateInit ==
  [screenshot |-> Screenshot(0, FALSE),
   screenshotWithHighlights |-> Screenshot(0, FALSE),
   interactiveElements |-> <<>>]

\* no screenshot decoded yet
NoImage == [width |-> 0, height |-> 0]

\* call(messages) with no options, on an adapter without fallback provider
DefaultOptions == [maxRetries |-> Omitted, noRetry |-> FALSE, fallback |-> FALSE]

\* the default registry, no executeAction call, no element list, no rectangles,
\* no adapter call
PureInit ==
  /\ kRegistry = DefaultActions
  /\ kAction = NoAction
  /\ kEntry = "none"
  /\ kParams = ParamsUndefined
  /\ kHandlerGot = ParamsUndefined
  /\ kRecorded = ParamsUndefined
  /\ kPc = NotStarted
  /\ gElems = <<>>
  /\ gOut = <<>>
  /\ gPhase = "input"
  /\ gFirst = <<>>
  /\ aOptions = DefaultOptions
  /\ aPc = "idle"
  /\ aPrimary = <<>>
  /\ aFallback = <<>>
  /\ aResult = "none"
  /\ lImage = NoImage
  /\ lPlaced = <<>>
  /\ lDrawn = <<>>
  /\ yPc = "new"
  /\ yDetector = FALSE
  /\ yState = ElementStateInit
  /\ yCandidates = <<>>
  /\ yCycles = 0
  /\ yOutcome = "none"
  /\ yAnnotation = "none"
  /\ yThrew = "none"
  /\ rectA = UnitRect
  /\ rectB = UnitRect
  /\ iouOut = <<1, 1>>

Init == AgentInit(ArgSet) /\ BrowserInit /\ ConvInit /\ PureInit


\* ------------------------------------------- the loop between suspensions
\* agent.step(step, result) is entered: browser.updateState() starts its
\* first capture attempt
BeginStep(evs, b) ==
  /\ pcLoop' = "capture"
  /\ attemptsLoop' = 1
  /\ captureStarts' = captureStarts + 1
  /\ \E launchOk \in BOOLEAN : browser' = InitBrowser(b, launchOk)
  /\ events' = evs
  /\ UNCHANGED <<closeCalls, streamCloses, runOutcome, output>>

\* run(): the finally block closes the browser and returns the AgentOutput
RunFinally(s, r) ==
  /\ pcLoop' = "end"
  /\ browser' = ClosedBrowser
  /\ closeCalls' = closeCalls + 1
  /\ runOutcome' = "resolved"
  /\ output' = [result |-> IF r = NoResult THEN NoResultProduced ELSE r,
                stepCount |-> s]
  /\ UNCHANGED <<attemptsLoop, captureStarts, events, streamCloses>>

\* runStream(): the terminal chunk is enqueued, then controller.close(),
\* then agent.browser.close()
StreamFinish(evs) ==
  /\ pcLoop' = "end"
  /\ events' = evs
  /\ streamCloses' = streamCloses + 1
  /\ browser' = ClosedBrowser
  /\ closeCalls' = closeCalls + 1
  /\ UNCHANGED <<attemptsLoop, captureStarts, runOutcome, output>>

\* runStream(): the loop's async callback rejects; Laminar.withSpan(...) is
\* not awaited, so neither the catch block nor anything else observes it
StreamCrash(b) ==
  /\ pcLoop' = "crashed"
  /\ browser' = b
  /\ UNCHANGED <<attemptsLoop, captureStarts, closeCalls, events,
                 streamCloses, runOutcome, output>>

\* a loop that admits one step too many
LoopConditionOffByOne(s, d) == ~d /\ s <= MaxSteps

\* while (!isDone && step < maxSteps)
LoopCondition(s, d) == ~d /\ s < MaxSteps

\* the loop condition is evaluated; the code after the loop when it fails
LoopHead(s, d, r, evs, b) ==
  IF LoopCondition(s, d)
    THEN s < StepBound /\ BeginStep(evs, b)
  ELSE IF args.mode = "run"
    THEN RunFinally(s, r)
  ELSE StreamFinish(Append(evs, Event("error", NoResult, s)))

\* an error leaves agent.step
StepThrows(b) ==
  /\ stepFailed' = TRUE
  /\ IF args.mode = "run" THEN RunFinally(step, result) ELSE StreamCrash(b)

\* a timeout reported through the error chunk
TimeoutChunkAsError(r, n) == Event("error", r, n)

\* controller.enqueue({ type: 'step_timeout', ... })
TimeoutChunk(r, n) == Event("step_timeout", r, n)

\* the code that follows "await agent.step(step, result)" up to the next await
PostStep(r, b) ==
  /\ step' = step + 1
  /\ result' = r
  /\ isDone' = r.isDone
  /\ IF args.mode = "run"
       THEN /\ LoopHead(step + 1, r.isDone, r, events, b)
            /\ UNCHANGED timeoutFound
     ELSE /\ timeoutFound' = (timeoutFound \/ (args.timeout /\ timedOut))
          /\ IF cancelled
               THEN StreamCrash(b)              \* enqueue on a cancelled stream throws
             ELSE IF args.timeout /\ timedOut
               THEN StreamFinish(Append(events, TimeoutChunk(r, step + 1)))
             ELSE IF r.isDone
               THEN IF args.returnStorageState
                      THEN /\ pcLoop' = "storage"
                           /\ events' = Append(events, Event("step", r, step + 1))
                           /\ browser' = b
                           /\ UNCHANGED <<attemptsLoop, captureStarts, closeCalls,
                                          streamCloses, runOutcome, output>>
                      ELSE StreamFinish(events \o <<Event("step", r, step + 1),
                                                    Event("final_output", r, step + 1)>>)
             ELSE LoopHead(step + 1, FALSE, r,
                           Append(events, Event("step", r, step + 1)), b)

\* ----------------------------------------------------------- setupMessages
\* setupMessages up to its first await
SetupBegin(b) ==
  IF args.resume
    THEN /\ messages' = ResumedLog           \* setMessages(state.messages)
         /\ pcSetup' = "capture"             \* await this.browser.updateState()
         /\ attemptsSetup' = 1
    ELSE /\ pcSetup' = "sys"                 \* await loadDemoImageAsB64(...)
         /\ UNCHANGED <<messages, attemptsSetup>>

SetupBrowser(b, launchOk) == IF args.resume THEN InitBrowser(b, launchOk) ELSE b

\* addSystemMessageAndUserPrompt pushes the preamble; then goto(startUrl)
SetupSeed ==
  /\ pcSetup = "sys"
  /\ messages' = messages \o <<SystemMsg, TaskMsg>>
  /\ IF args.startUrl
       THEN /\ pcSetup' = "goto"
            /\ \E launchOk \in BOOLEAN : browser' = InitBrowser(browser, launchOk)
       ELSE /\ pcSetup' = "done"
            /\ UNCHANGED browser
  /\ UNCHANGED <<args, pcLoop, step, isDone, result, stepState, action,
                 pendingAdds, closeCalls, attemptsSetup, attemptsLoop, events,
                 streamCloses, cancelled, runOutcome, output, modelCalls,
                 actionExecs, captureStarts, timedOut, timeoutFound,
                 stepFailed, seenAtCall>>
  /\ UNCHANGED <<histVars, browserVars, convVars, pureVars>>

\* page.goto(startUrl) settles; on success updateState starts
SetupGoto ==
  /\ pcSetup = "goto"
  /\ \/ /\ browser.open
        /\ pcSetup' = "capture"
        /\ attemptsSetup' = 1
        /\ UNCHANGED browser
     \/ /\ pcSetup' = "failed"
        /\ UNCHANGED <<attemptsSetup, browser>>
  /\ UNCHANGED <<args, pcLoop, step, isDone, result, stepState, action,
                 messages, pendingAdds, closeCalls, attemptsLoop, events,
                 streamCloses, cancelled, runOutcome, output, modelCalls,
                 actionExecs, captureStarts, timedOut, timeoutFound,
                 stepFailed, seenAtCall>>
  /\ UNCHANGED <<histVars, browserVars, convVars, pureVars>>

\* an attempt without the stale fallback of the catch block
AttemptOutcomeNoStale(hasState, ok, n) ==
  IF ok THEN "fresh"
  ELSE IF n < NumOfAttempts THEN "retry"
  ELSE "thrown"

\* One attempt of _updateState settles under backOff: hasState tells whether
\* this.state is set, ok whether the capture cycle succeeded, n is the number
\* of the attempt.  "fresh": the snapshot just built is returned; "stale":
\* the catch block returns this.state; only a throw makes backOff start
\* another attempt ("retry", while n < numOfAttempts) or give up ("thrown").
AttemptOutcome(hasState, ok, n) ==
  IF ok THEN "fresh"
  ELSE IF hasState THEN "stale"
  ELSE IF n < NumOfAttempts THEN "retry"
  ELSE "thrown"

\* One capture attempt (_updateState) settles, under backOff.  The result is
\* <<how, browser after, attempts after>> with how one of
\*   "returned"  updateState returns the state now in b.state
\*   "retry"     the attempt threw and backOff starts the next attempt
\*   "thrown"    the last attempt threw: updateState throws
CaptureOutcomes(b, n) ==
  {LET o == AttemptOutcome(b.state # "undef", ok, n)
   IN CASE o = "fresh" -> <<"returned", [b EXCEPT !.state = "snap"], n>>
        [] o = "stale" -> <<"returned", b, n>>
        [] o = "retry" -> <<"retry", InitBrowser(b, launchOk), n + 1>>
        [] OTHER -> <<"thrown", b, n>> :
     ok \in (IF b.open THEN BOOLEAN ELSE {FALSE}), launchOk \in BOOLEAN}

\* the updateState of setupMessages settles; addCurrentStateMessage
SetupCapture ==
  /\ pcSetup = "capture"
  /\ \E o \in CaptureOutcomes(browser, attemptsSetup) :
       /\ browser' = o[2]
       /\ attemptsSetup' = o[3]
       /\ pcSetup' = CASE o[1] = "returned" -> "done"
                       [] o[1] = "retry" -> "capture"
                       [] OTHER -> "failed"
       /\ messages' = IF o[1] = "returned"
                        THEN Append(messages, StateMsg(o[2].state, NoResult, args.resume))
                      ELSE messages
  /\ UNCHANGED <<args, pcLoop, step, isDone, result, stepState, action,
                 pendingAdds, closeCalls, attemptsLoop, events, streamCloses,
                 cancelled, runOutcome, output, modelCalls, actionExecs,
                 captureStarts, timedOut, timeoutFound, stepFailed, seenAtCall>>
  /\ UNCHANGED <<histVars, browserVars, convVars, pureVars>>


\* -------------------------------------------------------------- Agent.run
\* a run() that never tests its arguments
ArgumentsValidAlways(a) == TRUE

\* the negation of: if (!prompt && !agentState)
ArgumentsValid(a) == a.prompt \/ a.resume

\* run() is called with neither prompt nor agentState: it throws before the
\* try block, so the promise rejects and nothing else has happened
RunRejectsArguments ==
  /\ args.mode = "run"
  /\ pcLoop = "idle"
  /\ ~ArgumentsValid(args)
  /\ pcLoop' = "end"
  /\ runOutcome' = "rejected"
  /\ UNCHANGED <<args, pcSetup, step, isDone, result, stepState, action,
                 messages, pendingAdds, browser, closeCalls, attemptsSetup,
                 attemptsLoop, events, streamCloses, cancelled, output,
                 modelCalls, actionExecs, captureStarts, timedOut,
                 timeoutFound, stepFailed, seenAtCall>>
  /\ UNCHANGED <<histVars, browserVars, convVars, pureVars>>

\* run() is called: setupMessages starts and run awaits it
RunStart ==
  /\ args.mode = "run"
  /\ pcLoop = "idle"
  /\ ArgumentsValid(args)
  /\ pcLoop' = "awaitSetup"
  /\ SetupBegin(browser)
  /\ \E launchOk \in BOOLEAN : browser' = SetupBrowser(browser, launchOk)
  /\ UNCHANGED <<args, step, isDone, result, stepState, action, pendingAdds,
                 closeCalls, attemptsLoop, events, streamCloses, cancelled,
                 runOutcome, output, modelCalls, actionExecs, captureStarts,
                 timedOut, timeoutFound, stepFailed, seenAtCall>>
  /\ UNCHANGED <<histVars, browserVars, convVars, pureVars>>

\* "await this.setupMessages(...)" settles: the loop starts, or the error
\* leaves run() (the call is outside the try whose finally closes the browser)
RunAfterSetup ==
  /\ args.mode = "run"
  /\ pcLoop = "awaitSetup"
  /\ \/ /\ pcSetup = "done"
        /\ LoopHead(0, FALSE, NoResult, events, browser)
     \/ /\ pcSetup = "failed"
        /\ pcLoop' = "end"
        /\ runOutcome' = "rejected"
        /\ UNCHANGED <<attemptsLoop, captureStarts, browser, closeCalls, events,
                       streamCloses, output>>
  /\ UNCHANGED <<args, pcSetup, step, isDone, result, stepState, action,
                 messages, pendingAdds, attemptsSetup, cancelled, modelCalls,
                 actionExecs, timedOut, timeoutFound, stepFailed, seenAtCall>>
  /\ UNCHANGED <<histVars, browserVars, convVars, pureVars>>

\* -------------------------------------------------------- Agent.runStream
\* start(controller): setupMessages is started inside Laminar.withSpan and
\* NOT awaited; the loop is started inside a second Laminar.withSpan
StreamStart ==
  /\ args.mode = "stream"
  /\ pcLoop = "idle"
  /\ SetupBegin(browser)
  /\ \E launchOk \in BOOLEAN :
       LoopHead(0, FALSE, NoResult, events, SetupBrowser(browser, launchOk))
  /\ UNCHANGED <<args, step, isDone, result, stepState, action, pendingAdds,
                 cancelled, modelCalls, actionExecs, timedOut, timeoutFound,
                 stepFailed, seenAtCall>>
  /\ UNCHANGED <<histVars, browserVars, convVars, pureVars>>

\* cancel() of the underlying source: await agent.browser.close()
Cancel ==
  /\ args.mode = "stream"
  /\ pcLoop # "idle"
  /\ ~cancelled
  /\ streamCloses = 0
  /\ cancelled' = TRUE
  /\ browser' = ClosedBrowser
  /\ closeCalls' = closeCalls + 1
  /\ UNCHANGED <<args, pcSetup, pcLoop, step, isDone, result, stepState,
                 action, messages, pendingAdds, attemptsSetup, attemptsLoop,
                 events, streamCloses, runOutcome, output, modelCalls,
                 actionExecs, captureStarts, timedOut, timeoutFound,
                 stepFailed, seenAtCall>>
  /\ UNCHANGED <<histVars, browserVars, convVars, pureVars>>

\* the wall clock passes startTime + timeout
Tick ==
  /\ args.timeout
  /\ ~timedOut
  /\ pcLoop \notin {"idle", "end", "crashed"}
  /\ timedOut' = TRUE
  /\ UNCHANGED <<args, pcSetup, pcLoop, step, isDone, result, stepState,
                 action, messages, pendingAdds, browser, closeCalls,
                 attemptsSetup, attemptsLoop, events, streamCloses, cancelled,
                 runOutcome, output, modelCalls, actionExecs, captureStarts,
                 timeoutFound, stepFailed, seenAtCall>>
  /\ UNCHANGED <<histVars, browserVars, convVars, pureVars>>

\* final-output path with returnStorageState: getStorageState() settles
StreamStorage ==
  /\ pcLoop = "storage"
  /\ IF cancelled
       THEN StreamCrash(browser)
       ELSE StreamFinish(Append(events, Event("final_output", result, step)))
  /\ UNCHANGED <<args, pcSetup, step, isDone, result, stepState, action,
                 messages, pendingAdds, attemptsSetup, cancelled, modelCalls,
                 actionExecs, timedOut, timeoutFound, stepFailed, seenAtCall>>
  /\ UNCHANGED <<histVars, browserVars, convVars, pureVars>>

\* -------------------------------------------------------------- Agent.step
\* a capture attempt of the step's updateState settles; on return the
\* perception is appended (only when there is a previous result) and
\* generateAction calls the model
LoopCapture ==
  /\ pcLoop = "capture"
  /\ \E o \in CaptureOutcomes(browser, attemptsLoop) :
       \/ /\ o[1] = "returned"
          /\ browser' = o[2]
          /\ stepState' = o[2].state
          /\ messages' = GetMessages(IF result # NoResult
                                        THEN Append(messages, StateMsg(o[2].state, result, FALSE))
                                      ELSE messages)
          /\ seenAtCall' = messages'
          /\ modelCalls' = modelCalls + 1
          /\ pcLoop' = "model"
          /\ logBefore' = messages
          /\ UNCHANGED <<attemptsLoop, captureStarts, closeCalls, events,
                         streamCloses, runOutcome, output, stepFailed>>
       \/ /\ o[1] = "retry"
          /\ browser' = o[2]
          /\ attemptsLoop' = o[3]
          /\ UNCHANGED <<pcLoop, stepState, messages, seenAtCall, modelCalls,
                         captureStarts, closeCalls, events, streamCloses,
                         runOutcome, output, stepFailed, logBefore>>
       \/ /\ o[1] = "thrown"
          /\ StepThrows(o[2])
          /\ UNCHANGED <<stepState, messages, seenAtCall, modelCalls, logBefore>>
  /\ UNCHANGED <<args, pcSetup, step, isDone, result, action, pendingAdds,
                 attemptsSetup, cancelled, actionExecs, timedOut, timeoutFound,
                 genFailed, execError, malformed>>
  /\ UNCHANGED <<browserVars, convVars, pureVars>>

\* responses that parse as JSON but have no action, or an action without
\* params (here: the action "done")
MalformedOutcomes == {"noAction", "noParams"}

ModelOutcomes == {"callError", "parseError"} \cup MalformedOutcomes \cup ActionNames

\* llm.call / the parsing of its response settles; on success the model turn
\* is recorded (addMessageFromModelOutput is called without await) and
\* controller.executeAction is called
LoopModel ==
  /\ pcLoop = "model"
  /\ \E out \in ModelOutcomes :
       /\ malformed' = IF out \in MalformedOutcomes THEN out ELSE "none"
       /\ IF out \in {"callError", "parseError"}
            THEN /\ messages' = RemoveLastMessage(messages)
                 /\ genFailed' = TRUE
                 /\ StepThrows(browser)
                 /\ UNCHANGED <<pendingAdds, action, actionExecs, execError>>
            ELSE LET m1 == ReduceAll(IF result # NoResult THEN RemoveLastMessage(messages)
                                     ELSE messages)
                     deferred == result # NoResult /\ stepState = "snap"
                     \* modelOutput.action.params is read for the assistant
                     \* message: a TypeError if either is missing
                     recorded == out \notin MalformedOutcomes
                     name == IF out = "noParams" THEN "done" ELSE out
                 IN /\ messages' = IF deferred \/ ~recorded THEN m1
                                   ELSE Append(m1, AssistantMsg)
                    /\ UNCHANGED genFailed
                    /\ pendingAdds' = IF deferred
                                        THEN pendingAdds \cup {[step |-> step, prev |-> result,
                                                                assistant |-> recorded]}
                                      ELSE pendingAdds
                    /\ IF out = "noAction"
                         THEN /\ StepThrows(browser)   \* TypeError at action.name
                              /\ UNCHANGED <<action, actionExecs, execError>>
                       ELSE IF name \notin RegisteredActions
                         THEN /\ StepThrows(browser)   \* Action ... not found
                              /\ execError' = LookupError(name)
                              /\ UNCHANGED <<action, actionExecs>>
                       ELSE /\ pcLoop' = "action"
                            /\ action' = name
                            /\ actionExecs' = actionExecs + 1
                            /\ \E launchOk \in BOOLEAN :
                                 browser' = IF name = "browse"
                                              THEN InitBrowser(browser, launchOk)
                                              ELSE browser
                            /\ UNCHANGED <<stepFailed, attemptsLoop, captureStarts,
                                           closeCalls, events, streamCloses,
                                           runOutcome, output, execError>>
  /\ UNCHANGED <<args, pcSetup, step, isDone, result, stepState, attemptsSetup,
                 cancelled, modelCalls, timedOut, timeoutFound, seenAtCall,
                 logBefore>>
  /\ UNCHANGED <<browserVars, convVars, pureVars>>

\* the action handler settles: it throws, or it returns an ActionResult and
\* the loop continues after "await agent.step"
LoopAction ==
  /\ pcLoop = "action"
  /\ action' = "none"
  /\ \/ /\ action = "browse"
        /\ StepThrows(browser)          \* Error executing action ...
        /\ execError' = ExecutionError(action)
        /\ UNCHANGED <<step, isDone, result, timeoutFound>>
     \/ /\ \E err \in (IF action = "browse" THEN BOOLEAN ELSE {FALSE}) :
             PostStep(HandlerResult(action, step + 1, err), browser)
        /\ UNCHANGED <<stepFailed, execError>>
  /\ UNCHANGED <<args, pcSetup, stepState, messages, pendingAdds,
                 attemptsSetup, cancelled, modelCalls, actionExecs, timedOut,
                 seenAtCall>>
  /\ UNCHANGED <<logBefore, genFailed, malformed, browserVars, convVars, pureVars>>

\* scaleB64Image settles inside an un-awaited addMessageFromModelOutput: the
\* compact state message and the assistant message are pushed
FinishAdd ==
  /\ \E k \in pendingAdds :
       /\ pendingAdds' = pendingAdds \ {k}
       /\ messages' = messages \o (IF k.assistant
                                       THEN <<CompactMsg(k.prev), AssistantMsg>>
                                     ELSE <<CompactMsg(k.prev)>>)
  /\ UNCHANGED <<args, pcSetup, pcLoop, step, isDone, result, stepState,
                 action, browser, closeCalls, attemptsSetup, attemptsLoop,
                 events, streamCloses, cancelled, runOutcome, output,
                 modelCalls, actionExecs, captureStarts, timedOut,
                 timeoutFound, stepFailed, seenAtCall>>
  /\ UNCHANGED <<histVars, browserVars, convVars, pureVars>>

Next ==
  \/ RunRejectsArguments
  \/ RunStart
  \/ RunAfterSetup
  \/ StreamStart
  \/ SetupSeed
  \/ SetupGoto
  \/ SetupCapture
  \/ LoopCapture
  \/ LoopModel
  \/ LoopAction
  \/ StreamStorage
  \/ FinishAdd
  \/ Cancel
  \/ Tick

Spec == Init /\ [][Next]_vars

\* an Agent that is constructed and never run
IdleArgs == [mode |-> "run", maxSteps |-> Omitted, timeout |-> FALSE,
             startUrl |-> FALSE, resume |-> FALSE, returnStorageState |-> FALSE,
             prompt |-> TRUE]

\* the Agent idle, a fresh Browser, a fresh MessageManager
IdleInit == AgentInit({IdleArgs}) /\ BrowserInit /\ ConvInit /\ PureInit

\* ------------------------------------------------- Browser.updateState
\* One Browser, called directly.  Each updateState call is given a script:
\* the capture cycle (screenshot, detection, highlighting, tabs) throws in
\* attempts 1 .. failScript and succeeds in every later attempt.

RECURSIVE Power(_, _)
Power(b, e) == IF e = 0 THEN 1 ELSE b * Power(b, e - 1)

\* a backOff that also waits before the first attempt
BackOffDelayAlways(n) ==
  (StartingDelay * Power(TimeMultiple[1], n - 1)) \div Power(TimeMultiple[2], n - 1)

\* the delay backOff awaits before attempt n of a call: none before the
\* first (delayFirstAttempt: false), then startingDelay * timeMultiple^(n-2)
BackOffDelay(n) ==
  IF n = 1 THEN 0
  ELSE (StartingDelay * Power(TimeMultiple[1], n - 2)) \div Power(TimeMultiple[2], n - 2)

\* updateState() is called: backOff starts attempt 1 without delay
UpdateStateCall ==
  /\ attemptNo = 0
  /\ callCount < MaxCalls
  /\ callCount' = callCount + 1
  /\ attemptNo' = 1
  /\ \E k \in 0 .. NumOfAttempts : failScript' = k
  /\ delayBefore' = BackOffDelay(1)
  /\ attemptsMade' = 1
  /\ UNCHANGED <<thisState, lastGood, closedSince, lastCall, snapCount>>
  /\ UNCHANGED <<agentVars, convVars, pureVars>>

\* the attempt in flight settles
UpdateStateAttempt ==
  /\ attemptNo > 0
  /\ LET o == AttemptOutcome(thisState # StateUndefined, attemptNo > failScript,
                             attemptNo)
         settled(how, value) ==
           [how |-> how, value |-> value, retries |-> attemptNo - 1,
            script |-> failScript, goodBefore |-> lastGood,
            closedBefore |-> closedSince, stateBefore |-> thisState]
     IN CASE o = "fresh" ->
               /\ snapCount' = snapCount + 1
               /\ thisState' = snapCount + 1
               /\ lastGood' = snapCount + 1
               /\ closedSince' = FALSE
               /\ attemptNo' = 0
               /\ lastCall' = settled("returned", snapCount + 1)
               /\ UNCHANGED <<delayBefore, attemptsMade>>
          [] o = "stale" ->
               /\ attemptNo' = 0
               /\ lastCall' = settled("returned", thisState)
               /\ UNCHANGED <<snapCount, thisState, lastGood, closedSince,
                              delayBefore, attemptsMade>>
          [] o = "retry" ->
               /\ attemptNo' = attemptNo + 1
               /\ delayBefore' = BackOffDelay(attemptNo + 1)
               /\ attemptsMade' = attemptsMade + 1
               /\ UNCHANGED <<snapCount, thisState, lastGood, closedSince, lastCall>>
          [] OTHER ->
               /\ attemptNo' = 0
               /\ lastCall' = settled("thrown", StateUndefined)
               /\ UNCHANGED <<snapCount, thisState, lastGood, closedSince,
                              delayBefore, attemptsMade>>
  /\ UNCHANGED <<failScript, callCount>>
  /\ UNCHANGED <<agentVars, convVars, pureVars>>

\* close() between two calls: this.state = undefined
BrowserClose ==
  /\ attemptNo = 0
  /\ thisState # StateUndefined
  /\ thisState' = StateUndefined
  /\ closedSince' = TRUE
  /\ UNCHANGED <<lastGood, failScript, attemptNo, lastCall, callCount, snapCount,
                 delayBefore, attemptsMade>>
  /\ UNCHANGED <<agentVars, convVars, pureVars>>

NextBrowser ==
  \/ UpdateStateCall
  \/ UpdateStateAttempt
  \/ BrowserClose

SpecBrowser == IdleInit /\ [][NextBrowser]_vars

\* ----------------------------------------------------- MessageManager
\* One MessageManager, called directly with any sequence of its operations,
\* until the state is exported; the exported state is then given to a new
\* run.

\* addSystemMessageAndUserPrompt
ConvSeed ==
  /\ Len(cJson) = 0
  /\ Len(cLog) + 2 <= MaxLog
  /\ cLog' = cLog \o <<SystemMsg, TaskMsg>>
  /\ cLast' = "seed"
  /\ UNCHANGED <<cMarker, cJson, cExported>>
  /\ UNCHANGED <<agentVars, browserVars, pureVars>>

\* the ActionResults a perception can report: none, or an output
PreviousResults == {NoResult, HandlerResult("browse", 1, FALSE)}

\* addCurrentStateMessage
ConvPerception ==
  /\ Len(cJson) = 0
  /\ Len(cLog) + 1 <= MaxLog
  /\ \E st \in {"snap", "init"}, prev \in PreviousResults :
       cLog' = Append(cLog, StateMsg(st, prev, FALSE))
  /\ cLast' = "perception"
  /\ UNCHANGED <<cMarker, cJson, cExported>>
  /\ UNCHANGED <<agentVars, browserVars, pureVars>>

\* await addMessageFromModelOutput(step, previousResult, modelOutput, screenshot)
ConvModelTurn ==
  /\ Len(cJson) = 0
  /\ Len(cLog) + 2 <= MaxLog
  /\ \E prev \in PreviousResults, screenshot \in BOOLEAN :
       cLog' = ReduceAll(cLog)
                 \o (IF prev # NoResult /\ screenshot THEN <<CompactMsg(prev)>> ELSE <<>>)
                 \o <<AssistantMsg>>
  /\ cLast' = "turn"
  /\ UNCHANGED <<cMarker, cJson, cExported>>
  /\ UNCHANGED <<agentVars, browserVars, pureVars>>

\* removeLastMessage
ConvRollback ==
  /\ Len(cJson) = 0
  /\ cLog' = RemoveLastMessage(cLog)
  /\ cLast' = "rollback"
  /\ UNCHANGED <<cMarker, cJson, cExported>>
  /\ UNCHANGED <<agentVars, browserVars, pureVars>>

\* index of the latest non-system message that carries a cache marker
LatestMarker(log) ==
  LET marked == {i \in DOMAIN log : log[i].role # "system" /\ log[i].cc}
  IN IF marked = {} THEN 0 ELSE CHOOSE i \in marked : \A j \in marked : j <= i

\* getMessages
ConvRead ==
  /\ Len(cJson) = 0
  /\ cLog' = GetMessages(cLog)
  /\ cMarker' = LatestMarker(cLog)
  /\ cLast' = "read"
  /\ UNCHANGED <<cJson, cExported>>
  /\ UNCHANGED <<agentVars, browserVars, pureVars>>

\* Agent.getState and JSON.stringify of what it returned
ConvExport ==
  /\ Len(cJson) = 0
  /\ Len(cLog) > 0
  /\ cLog' = GetMessages(cLog)
  /\ cExported' = cLog'
  /\ cJson' = StringifyState(cLog')
  /\ cLast' = "export"
  /\ UNCHANGED cMarker
  /\ UNCHANGED <<agentVars, browserVars, pureVars>>

\* setupMessages(prompt, agentState) of a new run: setMessages of the parsed
\* state, then the perception with the prompt as follow-up
ConvResume ==
  /\ Len(cJson) > 0
  /\ cLast = "export"
  /\ \E st \in {"snap", "init"} :
       cLog' = Append(ParseState(cJson), StateMsg(st, NoResult, TRUE))
  /\ cLast' = "resume"
  /\ UNCHANGED <<cMarker, cJson, cExported>>
  /\ UNCHANGED <<agentVars, browserVars, pureVars>>

NextConv ==
  \/ ConvSeed
  \/ ConvPerception
  \/ ConvModelTurn
  \/ ConvRollback
  \/ ConvRead
  \/ ConvExport
  \/ ConvResume

SpecConv == IdleInit /\ [][NextConv]_vars


\* ------------------------------------------- Controller.executeAction
\* One model turn: Agent.step hands the ActionModel to
\* addMessageFromModelOutput (not awaited) and to executeAction.  In step 0
\* the recording reads the params before executeAction runs; in later steps it
\* first awaits the scaling of the screenshot, so executeAction has already
\* run up to the handler call.  Both read the same params object.

CustomNames == {"custom"}

CtrlNames == DOMAIN DefaultActions \cup CustomNames \cup {"unregistered", "constructor"}

\* names every object inherits from Object.prototype
InheritedNames == {"constructor"}

BrowserContextArgs == {"omitted", "true", "false"}

RegisterAction(reg, name, browserContext) ==
  [n \in DOMAIN reg \cup {name} |->
     IF n = name THEN browserContext = "true" ELSE reg[n]]

\* this._actions[actionName]
Lookup(reg, name) ==
  IF name \in DOMAIN reg THEN (IF reg[name] THEN "browser" ELSE "plain")
  ELSE IF name \in InheritedNames THEN "inherited"
  ELSE "missing"

\* const params = action.params || {}
ParamsOrEmpty(p) == IF p.given THEN p ELSE NoParams

InjectBrowserAlways(entry, p) == [p EXCEPT !.browser = "handle"]

\* if (actionObj.browserContext && browser) params.browser = browser
InjectBrowser(entry, p) ==
  IF entry = "browser" THEN [p EXCEPT !.browser = "handle"] ELSE p

\* const { browser, ...restActionParams } = modelOutput.action.params
StripBrowser(p) == [p EXCEPT !.browser = "absent"]

CtrlRegister(name, browserContext) ==
  /\ kAction = NoAction
  /\ kRegistry' = RegisterAction(kRegistry, name, browserContext)
  /\ UNCHANGED <<kAction, kEntry, kParams, kHandlerGot, kRecorded, kPc>>
  /\ UNCHANGED <<agentVars, browserVars, convVars, geoVars, iouVars, sideVars>>

CtrlModelOutput(name, p) ==
  /\ kAction = NoAction
  /\ kAction' = [name |-> name, params |-> p]
  /\ kParams' = p
  /\ kEntry' = "none"
  /\ kHandlerGot' = ParamsUndefined
  /\ kRecorded' = ParamsUndefined
  /\ kPc' = NotStarted
  /\ UNCHANGED kRegistry
  /\ UNCHANGED <<agentVars, browserVars, convVars, geoVars, iouVars, sideVars>>

\* the part of addMessageFromModelOutput that builds the assistant message
CtrlRecord ==
  /\ kAction # NoAction
  /\ kPc.recorded = "no"
  /\ IF kParams.given
       THEN /\ kRecorded' = StripBrowser(kParams)
            /\ kPc' = [kPc EXCEPT !.recorded = "yes"]
       ELSE /\ kRecorded' = kRecorded
            /\ kPc' = [kPc EXCEPT !.recorded = "threw"]
  /\ UNCHANGED <<kRegistry, kAction, kEntry, kParams, kHandlerGot>>
  /\ UNCHANGED <<agentVars, browserVars, convVars, geoVars, iouVars, sideVars>>

\* executeAction up to and including the call of the handler
CtrlExecute ==
  /\ kAction # NoAction
  /\ kPc.executed = "no"
  /\ LET entry == Lookup(kRegistry, kAction.name)
         params == InjectBrowser(entry, ParamsOrEmpty(kParams))
     IN /\ kEntry' = entry
        /\ CASE entry = "missing" ->
                  /\ kPc' = [kPc EXCEPT !.executed = "notfound"]
                  /\ UNCHANGED <<kParams, kHandlerGot>>
             [] entry = "inherited" ->
                  /\ kPc' = [kPc EXCEPT !.executed = "typeerror"]
                  /\ UNCHANGED <<kParams, kHandlerGot>>
             [] OTHER ->
                  /\ kPc' = [kPc EXCEPT !.executed = "handler"]
                  /\ kParams' = IF kParams.given THEN params ELSE kParams
                  /\ kHandlerGot' = params
  /\ UNCHANGED <<kRegistry, kAction, kRecorded>>
  /\ UNCHANGED <<agentVars, browserVars, convVars, geoVars, iouVars, sideVars>>

\* the next model turn
CtrlNextStep ==
  /\ kPc.recorded # "no"
  /\ kPc.executed # "no"
  /\ kAction' = NoAction
  /\ kEntry' = "none"
  /\ kParams' = ParamsUndefined
  /\ kHandlerGot' = ParamsUndefined
  /\ kRecorded' = ParamsUndefined
  /\ kPc' = NotStarted
  /\ UNCHANGED kRegistry
  /\ UNCHANGED <<agentVars, browserVars, convVars, geoVars, iouVars, sideVars>>

NextCtrl ==
  \/ \E name \in CustomNames, bc \in BrowserContextArgs : CtrlRegister(name, bc)
  \/ \E name \in CtrlNames, p \in SuppliedParams : CtrlModelOutput(name, p)
  \/ CtrlRecord
  \/ CtrlExecute
  \/ CtrlNextStep

SpecCtrl == IdleInit /\ [][NextCtrl]_vars


\* --------------------------------------------------------- calculateIou
\* A quotient is kept as <<numerator, denominator>>; 0.0 is <<0, 1>>.

Max(a, b) == IF a >= b THEN a ELSE b

Min(a, b) == IF a <= b THEN a ELSE b

CalculateIouNoIntersectionTest(rect1, rect2) ==
  LET intersectLeft == Max(rect1.left, rect2.left)
      intersectTop == Max(rect1.top, rect2.top)
      intersectRight == Min(rect1.right, rect2.right)
      intersectBottom == Min(rect1.bottom, rect2.bottom)
      area1 == (rect1.right - rect1.left) * (rect1.bottom - rect1.top)
      area2 == (rect2.right - rect2.left) * (rect2.bottom - rect2.top)
      intersectionArea ==
        (intersectRight - intersectLeft) * (intersectBottom - intersectTop)
      unionArea == area1 + area2 - intersectionArea
  IN IF unionArea > 0 THEN <<intersectionArea, unionArea>> ELSE <<0, 1>>

CalculateIou(rect1, rect2) ==
  LET intersectLeft == Max(rect1.left, rect2.left)
      intersectTop == Max(rect1.top, rect2.top)
      intersectRight == Min(rect1.right, rect2.right)
      intersectBottom == Min(rect1.bottom, rect2.bottom)
      area1 == (rect1.right - rect1.left) * (rect1.bottom - rect1.top)
      area2 == (rect2.right - rect2.left) * (rect2.bottom - rect2.top)
      intersectionArea ==
        (intersectRight - intersectLeft) * (intersectBottom - intersectTop)
      unionArea == area1 + area2 - intersectionArea
  IN IF intersectRight < intersectLeft \/ intersectBottom < intersectTop
       THEN <<0, 1>>
     ELSE IF unionArea > 0 THEN <<intersectionArea, unionArea>>
     ELSE <<0, 1>>

\* rect1 is fully contained within rect2
IsFullyContained(rect1, rect2) ==
  /\ rect1.left >= rect2.left
  /\ rect1.right <= rect2.right
  /\ rect1.top >= rect2.top
  /\ rect1.bottom <= rect2.bottom

\* the rectangles with corners on the grid 0..MaxCoord, empty ones included
GridRects ==
  {Rect(l, t, w, h) : l \in 0..MaxCoord, t \in 0..MaxCoord,
                      w \in 0..MaxCoord, h \in 0..MaxCoord}

IouRects == {r \in GridRects : r.right <= MaxCoord /\ r.bottom <= MaxCoord}

\* calculateIou called with another first argument
IouFirst(a) ==
  /\ rectA' = a
  /\ rectB' = rectB
  /\ iouOut' = CalculateIou(a, rectB)
  /\ UNCHANGED <<agentVars, browserVars, convVars, ctrlVars, geoVars, sideVars>>

\* calculateIou called with another second argument
IouSecond(b) ==
  /\ rectA' = rectA
  /\ rectB' = b
  /\ iouOut' = CalculateIou(rectA, b)
  /\ UNCHANGED <<agentVars, browserVars, convVars, ctrlVars, geoVars, sideVars>>

NextIou ==
  \/ \E a \in IouRects : IouFirst(a)
  \/ \E b \in IouRects : IouSecond(b)

SpecIou == IdleInit /\ [][NextIou]_vars


\* ------------------------------------------------------ filterElements
\* An InteractiveElement is kept with the fields the functions read or write:
\* rect, weight, zIndex and index; id stands for its browserAgentId.

Element(id, rect, weight, zIndex, index) ==
  [id |-> id, rect |-> rect, weight |-> weight, zIndex |-> zIndex,
   index |-> index]

ElemArea(e) == e.rect.width * e.rect.height

\* descending area, then descending weight
AreaBefore(a, b) ==
  IF ElemArea(b) # ElemArea(a) THEN ElemArea(b) - ElemArea(a) < 0
  ELSE b.weight - a.weight < 0

TopBefore(a, b) == a.rect.top - b.rect.top < 0

LeftBefore(a, b) == a.rect.left - b.rect.left < 0

\* "compare(a, b) < 0" for the comparator of each of the three sort calls
Before(order, a, b) ==
  CASE order = "area" -> AreaBefore(a, b)
    [] order = "top" -> TopBefore(a, b)
    [] order = "left" -> LeftBefore(a, b)

\* Array.prototype.sort with that comparator: a stable sort
StableSort(s, order) ==
  LET rank(i) ==
        Cardinality({j \in 1..Len(s) :
                       \/ Before(order, s[j], s[i])
                       \/ (~Before(order, s[i], s[j]) /\ j < i)}) + 1
  IN [k \in 1..Len(s) |-> s[CHOOSE i \in 1..Len(s) : rank(i) = k]]

\* iou > iouThreshold
IouExceeds(iou, threshold) == iou[1] * threshold[2] > threshold[1] * iou[2]

\* current area >= existing area * 0.5
AtLeastHalf(current, existing) ==
  ElemArea(current) * HalfArea[2] >= ElemArea(existing) * HalfArea[1]

\* filteredElements.splice(i, 1)
RemoveAt(s, i) == SubSeq(s, 1, i - 1) \o SubSeq(s, i + 1, Len(s))

\* the inner loop from position i on: the accepted list it leaves and shouldAdd
RECURSIVE CheckAgainstAccepted(_, _, _, _)
CheckAgainstAccepted(current, filtered, i, threshold) ==
  IF i > Len(filtered) THEN [list |-> filtered, shouldAdd |-> TRUE]
  ELSE LET existing == filtered[i]
       IN IF IouExceeds(CalculateIou(current.rect, existing.rect), threshold)
            THEN [list |-> filtered, shouldAdd |-> FALSE]
          ELSE IF IsFullyContained(current.rect, existing.rect)
            THEN IF /\ existing.weight >= current.weight
                    /\ existing.zIndex = current.zIndex
                   THEN [list |-> filtered, shouldAdd |-> FALSE]
                 ELSE IF AtLeastHalf(current, existing)
                   THEN [list |-> RemoveAt(filtered, i), shouldAdd |-> TRUE]
                 ELSE CheckAgainstAccepted(current, filtered, i + 1, threshold)
          ELSE CheckAgainstAccepted(current, filtered, i + 1, threshold)

\* the outer loop from the k-th element of the sorted array on
RECURSIVE AddOneByOne(_, _, _, _)
AddOneByOne(elements, k, filtered, threshold) ==
  IF k > Len(elements) THEN filtered
  ELSE LET r == CheckAgainstAccepted(elements[k], filtered, 1, threshold)
       IN AddOneByOne(elements, k + 1,
                      IF r.shouldAdd THEN Append(r.list, elements[k])
                      ELSE r.list,
                      threshold)

\* the array after elements.sort(...)
SortedInPlace(elements) == StableSort(elements, "area")

FilterOverlappingElements(elements, threshold) ==
  IF Len(elements) = 0 THEN <<>>
  ELSE AddOneByOne(SortedInPlace(elements), 1, <<>>, threshold)

RowReferenceFirst(currentRow) == currentRow[1]

\* const lastElement = currentRow[currentRow.length - 1]
RowReference(currentRow) == currentRow[Len(currentRow)]

Abs(x) == IF x < 0 THEN -x ELSE x

\* the grouping loop from the k-th element of sortedByY on, and the push of
\* the last row
RECURSIVE GroupRows(_, _, _, _)
GroupRows(sortedByY, k, rows, currentRow) ==
  IF k > Len(sortedByY)
    THEN IF Len(currentRow) > 0 THEN Append(rows, currentRow) ELSE rows
  ELSE LET element == sortedByY[k]
       IN IF Len(currentRow) = 0
            THEN GroupRows(sortedByY, k + 1, rows, <<element>>)
          ELSE IF Abs(element.rect.top - RowReference(currentRow).rect.top)
                    <= RowThreshold
            THEN GroupRows(sortedByY, k + 1, rows, Append(currentRow, element))
          ELSE GroupRows(sortedByY, k + 1, Append(rows, currentRow), <<element>>)

\* rows.flat()
RECURSIVE Flat(_)
Flat(rows) == IF Len(rows) = 0 THEN <<>> ELSE Head(rows) \o Flat(Tail(rows))

SortElementsByPosition(elements) ==
  IF Len(elements) = 0 THEN <<>>
  ELSE LET sortedByY == StableSort(elements, "top")
           rows == GroupRows(sortedByY, 1, <<>>, <<>>)
           sortedRows == [r \in 1..Len(rows) |-> StableSort(rows[r], "left")]
           sortedElements == Flat(sortedRows)
       IN [i \in 1..Len(sortedElements) |->
             [sortedElements[i] EXCEPT !.index = i - 1]]

FilterElements(elements, threshold) ==
  SortElementsByPosition(FilterOverlappingElements(elements, threshold))

\* the elements of an array after a call has written the index of those it
\* returned (the returned array holds the same objects)
WithIndexOf(elements, returned) ==
  [k \in 1..Len(elements) |->
     IF \E j \in 1..Len(returned) : returned[j].id = elements[k].id
       THEN [elements[k] EXCEPT !.index =
               returned[CHOOSE j \in 1..Len(returned) :
                          returned[j].id = elements[k].id].index]
     ELSE elements[k]]

\* the elements the filter is applied to: one row
FilterUniverse ==
  {[rect |-> Rect(l, 0, w, ElemHeight), weight |-> g, zIndex |-> z] :
     l \in 0..MaxLeft, w \in 1..MaxWidth, g \in 1..MaxWeight, z \in 0..MaxZ}

SortTops == {r * TopStep : r \in 0..MaxRows} \cup {RowThreshold, RowThreshold + 1}

\* the elements the sort is applied to: one size, one weight
SortUniverse ==
  {[rect |-> Rect(l, t, MaxWidth, ElemHeight), weight |-> 1, zIndex |-> 0] :
     l \in 0..MaxLeft, t \in SortTops}

\* one more element detected on the page
AppendElement(v) ==
  /\ gPhase = "input"
  /\ Len(gElems) < MaxElems
  /\ gElems' = Append(gElems, Element(Len(gElems) + 1, v.rect, v.weight,
                                      v.zIndex, Len(gElems)))
  /\ UNCHANGED <<gOut, gPhase, gFirst>>
  /\ UNCHANGED <<agentVars, browserVars, convVars, ctrlVars, iouVars, sideVars>>

GeoAppend(v) == AppendElement(v)

SortAppend(v) == AppendElement(v)

\* filterOverlappingElements(elements)
GeoFilterOverlapping ==
  /\ gPhase = "input"
  /\ gOut' = FilterOverlappingElements(gElems, IouThreshold)
  /\ gElems' = SortedInPlace(gElems)
  /\ gPhase' = "filterOverlappingElements"
  /\ UNCHANGED gFirst
  /\ UNCHANGED <<agentVars, browserVars, convVars, ctrlVars, iouVars, sideVars>>

\* filterElements(elements)
GeoFilterElements ==
  /\ gPhase = "input"
  /\ gOut' = FilterElements(gElems, IouThreshold)
  /\ gElems' = WithIndexOf(SortedInPlace(gElems), gOut')
  /\ gPhase' = "filterElements"
  /\ UNCHANGED gFirst
  /\ UNCHANGED <<agentVars, browserVars, convVars, ctrlVars, iouVars, sideVars>>

\* filterElements(filterElements(elements), 0.7): the second application;
\* gFirst is the first result as it was returned
GeoFilterAgain ==
  /\ gPhase = "filterElements"
  /\ gFirst' = gOut
  /\ gOut' = FilterElements(gOut, IouThreshold)
  /\ gElems' = WithIndexOf(gElems, gOut')
  /\ gPhase' = "filterElements twice"
  /\ UNCHANGED <<agentVars, browserVars, convVars, ctrlVars, iouVars, sideVars>>

\* sortElementsByPosition(elements)
GeoSort ==
  /\ gPhase = "input"
  /\ gOut' = SortElementsByPosition(gElems)
  /\ gElems' = WithIndexOf(gElems, gOut')
  /\ gPhase' = "sortElementsByPosition"
  /\ UNCHANGED gFirst
  /\ UNCHANGED <<agentVars, browserVars, convVars, ctrlVars, iouVars, sideVars>>

NextFilter ==
  \/ \E v \in FilterUniverse : GeoAppend(v)
  \/ GeoFilterOverlapping
  \/ GeoFilterElements
  \/ GeoFilterAgain

SpecFilter == IdleInit /\ [][NextFilter]_vars

NextSort ==
  \/ \E v \in SortUniverse : SortAppend(v)
  \/ GeoSort

SpecSort == IdleInit /\ [][NextSort]_vars


\* -------------------------------------------------------- AISdkAdapter.call
\* One call of an adapter.  Each attempt of a provider either answers or
\* fails with an error whose status is one of ErrorStatuses (Omitted: an
\* error without status, such as a network error).  fallback says whether
\* the constructor made a fallback adapter (provider 'anthropic'); the
\* fallback adapter wraps bedrock and so has no fallback of its own.
ErrorStatuses == {Omitted, 400, TooManyRequests, ServerError - 1, ServerError}

\* generateText answers, or throws an error with one of the statuses
AttemptOutcomes ==
  {[ok |-> TRUE, status |-> Omitted]}
    \cup {[ok |-> FALSE, status |-> e] : e \in ErrorStatuses}

OptionSet ==
  [maxRetries : {Omitted} \cup 0..MaxRetriesOption, noRetry : BOOLEAN,
   fallback : BOOLEAN]

\* numOfAttempts: options.maxRetries || 3
AttemptsOf(options) ==
  IF options.maxRetries = Omitted \/ options.maxRetries = 0 THEN AdapterAttempts
  ELSE options.maxRetries

\* the retry callback: !options.noRetry && (status === 429 || status >= 500)
ShouldRetry(options, status) ==
  /\ ~options.noRetry
  /\ (status = TooManyRequests \/ status >= ServerError)

\* backOff gives up after an error if the attempts are used up or retry says no
GivesUp(options, errors) ==
  \/ Len(errors) >= AttemptsOf(options)
  \/ ~ShouldRetry(options, errors[Len(errors)])

\* call(messages, temperature, maxTokens, options)
AdapterCall(o) ==
  /\ aPc = "idle"
  /\ aOptions' = o
  /\ aPc' = "primary"
  /\ UNCHANGED <<aPrimary, aFallback, aResult>>
  /\ UNCHANGED <<agentVars, browserVars, convVars, ctrlVars, geoVars, iouVars,
                 labelVars, cycleVars>>

\* one attempt of generateText with the primary provider inside backOff; when
\* backOff throws, the catch calls the fallback adapter if there is one
PrimaryAttempt(out) ==
  /\ aPc = "primary"
  /\ IF out.ok
       THEN /\ aPc' = "returned"
            /\ aResult' = "primary"
            /\ UNCHANGED aPrimary
     ELSE /\ aPrimary' = Append(aPrimary, out.status)
          /\ IF ~GivesUp(aOptions, aPrimary')
               THEN UNCHANGED <<aPc, aResult>>
             ELSE IF aOptions.fallback
               THEN /\ aPc' = "fallback"
                    /\ UNCHANGED aResult
             ELSE /\ aPc' = "threw"
                  /\ aResult' = "primary error"
  /\ UNCHANGED <<aOptions, aFallback>>
  /\ UNCHANGED <<agentVars, browserVars, convVars, ctrlVars, geoVars, iouVars,
                 labelVars, cycleVars>>

\* one attempt inside this.fallbackProvider.call(messages, ..., options)
FallbackAttempt(out) ==
  /\ aPc = "fallback"
  /\ IF out.ok
       THEN /\ aPc' = "returned"
            /\ aResult' = "fallback"
            /\ UNCHANGED aFallback
     ELSE /\ aFallback' = Append(aFallback, out.status)
          /\ IF ~GivesUp(aOptions, aFallback')
               THEN UNCHANGED <<aPc, aResult>>
             ELSE /\ aPc' = "threw"
                  /\ aResult' = "fallback error"
  /\ UNCHANGED <<aOptions, aPrimary>>
  /\ UNCHANGED <<agentVars, browserVars, convVars, ctrlVars, geoVars, iouVars,
                 labelVars, cycleVars>>

NextAdapter ==
  \/ \E o \in OptionSet : AdapterCall(o)
  \/ \E out \in AttemptOutcomes : PrimaryAttempt(out)
  \/ \E out \in AttemptOutcomes : FallbackAttempt(out)

SpecAdapter == IdleInit /\ [][NextAdapter]_vars


\* ------------------------------ putHighlightElementsOnScreenshot: labels
\* The loop over the elements that are drawn (sheet rows and columns are
\* skipped before anything is computed), one iteration per action, on a
\* screenshot of a given size.
LabelWidth == TextWidth + LabelPadding

LabelHeight == TextHeight + LabelPadding

ImageSizes ==
  [width : {LabelWidth + 1, ImageSide}, height : {LabelHeight + 1, ImageSide}]

GridEdges == {k * LabelGrid : k \in -1..MaxGrid}

\* the rectangles of the elements: narrower and lower than a label, or wider
\* and higher
LabelledRects ==
  {Rect(l, t, w, h) : l \in GridEdges, t \in GridEdges,
                      w \in {LabelGrid, 2 * LabelGrid},
                      h \in {LabelGrid, 2 * LabelGrid}}

Label(x, y) ==
  [left |-> x, top |-> y, right |-> x + LabelWidth, bottom |-> y + LabelHeight]

\* the test of the loop over placedLabels
LabelsOverlap(labelRect, existing) ==
  ~(\/ labelRect.right < existing.left
    \/ labelRect.left > existing.right
    \/ labelRect.bottom < existing.top
    \/ labelRect.top > existing.bottom)

\* the label rectangle after the loop over placedLabels from position i on:
\* moved below the first label it overlaps
RECURSIVE AvoidPlaced(_, _, _)
AvoidPlaced(labelRect, placed, i) ==
  IF i > Len(placed) THEN labelRect
  ELSE IF LabelsOverlap(labelRect, placed[i])
    THEN [labelRect EXCEPT !.top = placed[i].bottom + LabelGap,
                           !.bottom = placed[i].bottom + LabelGap + LabelHeight]
  ELSE AvoidPlaced(labelRect, placed, i + 1)

\* "Ensure label is visible within image boundaries", for one coordinate
ClampInto(v, size, extent) ==
  IF v < 0 THEN 0
  ELSE IF v + size >= extent THEN extent - size - 1
  ELSE v

\* labelX before the overlap test
StartX(rect) ==
  IF LabelWidth > rect.width \/ LabelHeight > rect.height
    THEN rect.left + rect.width
  ELSE rect.left + rect.width - LabelWidth

\* metadata of the decoded screenshot
LabelImage(size) ==
  /\ lImage = NoImage
  /\ lImage' = size
  /\ UNCHANGED <<lPlaced, lDrawn>>
  /\ UNCHANGED <<agentVars, browserVars, convVars, ctrlVars, geoVars, iouVars,
                 adapterVars, cycleVars>>

\* one iteration of the loop over the elements
LabelElement(rect) ==
  /\ lImage # NoImage
  /\ Len(lPlaced) < MaxLabels
  /\ LET labelRect == AvoidPlaced(Label(StartX(rect), rect.top), lPlaced, 1)
         \* labelY follows the label rectangle, labelX was never moved
         labelX == ClampInto(StartX(rect), LabelWidth, lImage.width)
         labelY == ClampInto(labelRect.top, LabelHeight, lImage.height)
     IN /\ lDrawn' = Append(lDrawn, [x |-> labelX, y |-> labelY,
                                     width |-> LabelWidth, height |-> LabelHeight])
        /\ lPlaced' = Append(lPlaced, labelRect)
  /\ UNCHANGED lImage
  /\ UNCHANGED <<agentVars, browserVars, convVars, ctrlVars, geoVars, iouVars,
                 adapterVars, cycleVars>>

NextLabel ==
  \/ \E size \in ImageSizes : LabelImage(size)
  \/ \E rect \in LabelledRects : LabelElement(rect)

SpecLabel == IdleInit /\ [][NextLabel]_vars


\* ------------------------------------ Browser._updateState: the elements
\* One Browser whose capture cycles (_updateState) are run one after another.
\* Each cycle is given what the detection source returns, whether the
\* drawing of the highlights works, and which awaited call throws, if any.
\* The detection source (the configured detector, or else the script
\* evaluated in the page) returns elements that are already resolved: no two
\* overlap, they are in reading order and indexed 0, 1, ...
DetectedWidth == 2

DetectedRect(k) == Rect(k * (DetectedWidth + 1), 0, DetectedWidth, ElemHeight)

\* n elements detected in the given cycle at the given places
DetectedAt(cycle, places) ==
  [i \in 1..Len(places) |->
     Element(cycle * (MaxDetected + 1) + i, DetectedRect(places[i]), 1, 0, i - 1)]

\* the places of the elements one detection can return
DetectionPlaces ==
  {places \in UNION {[1..n -> 0..MaxDetected] : n \in 0..MaxDetected} :
     FilterElements(DetectedAt(0, places), IouThreshold) = DetectedAt(0, places)}

\* the keys of the object built by interactiveElements[element.index] = element
IndexKeys(elements) == {elements[i].index : i \in DOMAIN elements}

\* Object.values of that object: one element per index, the last one
\* assigned, in ascending order of the index
ByIndex(elements) ==
  LET keys == IndexKeys(elements)
      key(p) == CHOOSE k \in keys : Cardinality({j \in keys : j < k}) = p - 1
      lastWith(k) == CHOOSE i \in DOMAIN elements :
                       /\ elements[i].index = k
                       /\ \A j \in DOMAIN elements : j > i => elements[j].index # k
  IN [p \in 1..Cardinality(keys) |-> elements[lastWith(key(p))]]

\* getInteractiveElements(...).elements: with a detector the elements of
\* this.state followed by the detector's, else the elements of the page script
GetInteractiveElements(detector, state, detected) ==
  IF detector THEN state.interactiveElements \o detected
  ELSE detected

\* a putHighlightElementsOnScreenshot without the catch
PutHighlightUncaught(screenshot, works) ==
  [threw |-> ~works, image |-> Screenshot(screenshot.n, TRUE)]

\* putHighlightElementsOnScreenshot: the composite image, or the input image
\* if anything inside the try block threw
PutHighlightElementsOnScreenshot(screenshot, works) ==
  [threw |-> FALSE,
   image |-> IF works THEN Screenshot(screenshot.n, TRUE) ELSE screenshot]

\* new Browser(config)
BrowserConstruct(detector) ==
  /\ yPc = "new"
  /\ yPc' = "ready"
  /\ yDetector' = detector
  /\ UNCHANGED <<yState, yCandidates, yCycles, yOutcome, yAnnotation, yThrew>>
  /\ UNCHANGED <<agentVars, browserVars, convVars, ctrlVars, geoVars, iouVars,
                 adapterVars, labelVars>>

\* one _updateState: throws names the awaited call that throws, "capture"
\* (initBrowser, fastScreenshot or getInteractiveElements) or "tabs"
\* (getTabsInfo); the catch returns this.state, which is set
CaptureCycle(places, works, throws) ==
  /\ yPc = "ready"
  /\ yCycles < MaxCycles
  /\ yCycles' = yCycles + 1
  /\ IF throws = "capture"
       THEN /\ yThrew' = "capture"
            /\ yOutcome' = AttemptOutcome(TRUE, FALSE, 1)
            /\ yAnnotation' = "none"
            /\ yCandidates' = <<>>
            /\ UNCHANGED yState
     ELSE LET screenshot == Screenshot(yCycles + 1, FALSE)
              detected == DetectedAt(yCycles + 1, places)
              data == GetInteractiveElements(yDetector, yState, detected)
              highlights == PutHighlightElementsOnScreenshot(screenshot, works)
              threw == IF highlights.threw THEN "annotation" ELSE throws
          IN /\ yCandidates' = detected
             /\ yAnnotation' = IF works THEN "drawn" ELSE "failed"
             /\ yThrew' = threw
             /\ yOutcome' = AttemptOutcome(TRUE, threw = "none", 1)
             /\ yState' = IF threw = "none"
                            THEN [screenshot |-> screenshot,
                                  screenshotWithHighlights |-> highlights.image,
                                  interactiveElements |-> ByIndex(data)]
                          ELSE yState
  /\ UNCHANGED <<yPc, yDetector>>
  /\ UNCHANGED <<agentVars, browserVars, convVars, ctrlVars, geoVars, iouVars,
                 adapterVars, labelVars>>

NextCycle ==
  \/ \E detector \in BOOLEAN : BrowserConstruct(detector)
  \/ \E places \in DetectionPlaces, works \in BOOLEAN,
        throws \in {"none", "capture", "tabs"} :
       CaptureCycle(places, works, throws)

SpecCycle == IdleInit /\ [][NextCycle]_vars


\* ================================================================ claims
Last(q) == q[Len(q)]

CountType(t) == Cardinality({i \in DOMAIN events : events[i].type = t})

TerminalCount == Cardinality({i \in DOMAIN events : events[i].type \in TerminalTypes})

LoopOver == pcLoop \in {"end", "crashed"}

StepInFlight == pcLoop \in {"capture", "model", "action"}

\* C1: in batch mode a step that fails with an unrecovered error makes run()
\* reject with that error instead of resolving with an AgentOutput.
C1_RunRejectsOnStepError ==
  (args.mode = "run" /\ stepFailed /\ runOutcome # "pending")
    => runOutcome = "rejected"

\* C2: on every terminal path of run and runStream after the browser has been
\* opened, Browser.close() has been called by the time the run settles or the
\* stream's loop is over (a browser that is open with no close() call so far
\* was opened and never closed).
C2_BrowserClosedOnEveryTerminalPath ==
  (runOutcome # "pending" \/ LoopOver)
    => ~(browser.open /\ closeCalls = 0)

\* C3: on every terminal path of runStream the stream carries exactly one
\* terminal event, which is its last event, and is closed exactly once.
C3_OneTerminalEventOneClose ==
  (args.mode = "stream" /\ LoopOver /\ ~cancelled)
    => /\ TerminalCount = 1
       /\ Last(events).type \in TerminalTypes
       /\ streamCloses = 1

\* C4: after the consumer cancels the stream the browser is closed and stays
\* closed, and the loop begins no further capture, model call or action.
C4_NothingRunsAfterCancel ==
  [][cancelled => /\ captureStarts' = captureStarts
                  /\ modelCalls' = modelCalls
                  /\ actionExecs' = actionExecs
                  /\ ~browser'.open]_vars

\* C5: in run and runStream step 0 (its capture, its model call) does not
\* begin until setupMessages has completed, and the first model call sees the
\* seeded conversation.
C5_SetupCompletesBeforeStepZero ==
  /\ (captureStarts > 0 => pcSetup = "done")
  /\ (modelCalls > 0 => (Len(seenAtCall) >= 2 /\ seenAtCall[1].kind = "system"
                         /\ seenAtCall[2].kind = "task"))

\* C6: with step cap m and no done action chosen (and no failing step), run
\* executes exactly m steps (m model calls, m action executions), never
\* begins step m+1, and returns normally with stepCount = m; with the cap
\* omitted it is 100, so the run is not stopped by the cap before step 100.
C6_StepCapExact ==
  args.mode = "run" =>
    /\ step <= MaxSteps /\ captureStarts <= MaxSteps
    /\ modelCalls <= MaxSteps /\ actionExecs <= MaxSteps
    /\ (pcSetup = "done" /\ pcLoop = "end" /\ ~stepFailed /\ ~isDone)
         => /\ runOutcome = "resolved"
            /\ output.stepCount = MaxSteps
            /\ step = MaxSteps /\ captureStarts = MaxSteps
            /\ modelCalls = MaxSteps /\ actionExecs = MaxSteps
    /\ (args.maxSteps = Omitted /\ pcSetup = "done" /\ ~stepFailed /\ ~isDone
          /\ step < 100)
         => runOutcome = "pending"

C6_Witness ==
  /\ args.mode = "run" /\ args.maxSteps >= 2
  /\ runOutcome = "resolved" /\ ~stepFailed /\ ~isDone
  /\ step = args.maxSteps /\ actionExecs = args.maxSteps

\* C7: reaching the step cap without completion is a non-error terminal
\* outcome in both modes: run() returns normally and the terminal event of
\* runStream is not of kind error.
C7_StepCapIsNotAnError ==
  (pcSetup = "done" /\ pcLoop = "end" /\ ~isDone /\ ~stepFailed
     /\ step >= 1 /\ step = MaxSteps /\ ~timeoutFound)
    => /\ (args.mode = "run" => runOutcome = "resolved")
       /\ (args.mode = "stream" => (events # <<>> /\ Last(events).type # "error"))

\* C8: when the action of the k-th step returns an outcome with isDone = true
\* no further step begins and the run ends successfully with that outcome and
\* stepCount = k (batch: the AgentOutput; stream: the final_output event).
C8_DoneEndsRunWithThatOutcome ==
  result.isDone =>
    /\ ~StepInFlight
    /\ captureStarts = result.src
    /\ (args.mode = "run"
          => /\ runOutcome = "resolved"
             /\ output = [result |-> result, stepCount |-> result.src])
    /\ (args.mode = "stream" /\ pcLoop = "end" /\ ~cancelled)
          => Last(events) = Event("final_output", result, result.src)

\* C9: in runStream exactly one step event is enqueued for each completed
\* step, in step order and before the terminal event, on every terminal path.
C9_OneStepEventPerCompletedStep ==
  (args.mode = "stream" /\ ~cancelled)
    => /\ CountType("step") = step
       /\ \A i \in DOMAIN events :
            events[i].type = "step" => (i <= step /\ events[i].src = i)

\* C10: the elapsed-time test is made only after a step has fully completed;
\* when it finds the timeout exceeded no further step begins and (unless the
\* consumer has cancelled) the stream ends with step_timeout and carries no
\* error event; without a timeout argument step_timeout is never emitted.
C10_CooperativeTimeout ==
  /\ timeoutFound
       => /\ LoopOver
          /\ step >= 1
          /\ captureStarts = step /\ modelCalls = step /\ actionExecs = step
  /\ (timeoutFound /\ ~cancelled)
       => /\ pcLoop = "end"
          /\ Last(events) = Event("step_timeout", result, step)
          /\ CountType("error") = 0 /\ CountType("final_output") = 0
          /\ streamCloses = 1
  /\ CountType("step_timeout") > 0 => (args.timeout /\ timeoutFound)
  /\ CountType("step_timeout") <= 1

C10_Witness ==
  /\ args.timeout /\ timeoutFound /\ ~cancelled
  /\ step = 2
  /\ Last(events).type = "step_timeout"
  /\ CountType("step") = 1

\* C11: within every step the capture completes before the model call
\* starts, the model call and the recording of the model turn complete before
\* the action handler starts, and the capture of step n+1 starts only after
\* the outcome of step n has been returned and stored.
C11_StepPhasesInOrder ==
  /\ modelCalls <= captureStarts
  /\ actionExecs <= modelCalls
  /\ (pcLoop = "model" => modelCalls = captureStarts)
  /\ (pcLoop = "action" => (actionExecs = modelCalls /\ pendingAdds = {}))
  /\ (pcLoop = "capture" => (captureStarts = step + 1 /\ actionExecs = step
                             /\ action = "none"))

\* C12: for k in {1, 2}, an updateState call whose capture cycle fails in its
\* first k attempts and succeeds in attempt k+1 returns the snapshot built by
\* the successful attempt, having retried exactly k times.
C12_RetriesUntilSuccess ==
  (lastCall.how # "none" /\ lastCall.script \in {1, 2})
    => /\ lastCall.how = "returned"
       /\ lastCall.value > lastCall.goodBefore
       /\ lastCall.value >= 1
       /\ lastCall.retries = lastCall.script

\* C13 as stated: an updateState call whose capture cycle fails in every
\* attempt, on a browser where an earlier updateState call succeeded, returns
\* that earlier snapshot and raises no error.
C13_StaleSnapshotReturned ==
  (lastCall.how # "none" /\ lastCall.script = NumOfAttempts
     /\ lastCall.goodBefore # 0)
    => (lastCall.how = "returned" /\ lastCall.value = lastCall.goodBefore)

\* C13 amended: an updateState call whose capture cycle fails in every
\* attempt, on a browser where an earlier updateState call succeeded and on
\* which close() has not been called since that success, returns that earlier
\* snapshot, leaves it in place as the browser's state, and raises no error.
C13_StaleSnapshotReturnedUnlessClosed ==
  /\ (lastCall.how # "none" /\ lastCall.script = NumOfAttempts
        /\ lastCall.goodBefore # 0 /\ ~lastCall.closedBefore)
       => (lastCall.how = "returned" /\ lastCall.value = lastCall.goodBefore
           /\ lastCall.stateBefore = lastCall.goodBefore)
  /\ (attemptNo = 0 /\ lastGood # 0 /\ ~closedSince) => thisState = lastGood

C13_Witness ==
  /\ lastCall.how = "returned"
  /\ lastCall.script = NumOfAttempts
  /\ lastCall.goodBefore # 0
  /\ ~lastCall.closedBefore
  /\ lastCall.value = lastCall.goodBefore

\* C14: updateState propagates the capture error exactly when all attempts
\* fail and no earlier capture succeeded; in particular on a freshly
\* constructed browser the failure of all attempts raises the error and no
\* state is returned.
C14_ErrorExactlyWithoutSnapshot ==
  lastCall.how # "none"
    => ((lastCall.how = "thrown")
          <=> (lastCall.script = NumOfAttempts /\ lastCall.goodBefore = 0))

\* the non-system messages of the MessageManager's log that carry a cache marker
MarkedMessages == {i \in DOMAIN cLog : cLog[i].role # "system" /\ cLog[i].cc}

\* C15: right after getMessages() has returned, at most one non-system
\* message has a text part with cacheControl = true, and it is the latest
\* message that carried a marker before the read (markers on messages 2 and 5
\* leave only the one on 5); this holds after any sequence of appends,
\* rollbacks and reads.
C15_OneCacheMarkerAfterRead ==
  cLast = "read"
    => /\ Cardinality(MarkedMessages) <= 1
       /\ \A i \in MarkedMessages : i = cMarker
       /\ (cMarker # 0 => cMarker \in MarkedMessages)

\* a read met the marker of the compact state message 4 and cleared the one
\* of the task message 2
C15_Witness ==
  /\ cLast = "read"
  /\ cMarker = 4
  /\ cLog[4].kind = "cstate"
  /\ cLog[2].kind = "task"
  /\ ~cLog[2].cc
  /\ MarkedMessages = {4}

\* C19: the state exported by getState(), serialised to JSON and passed as
\* agentState to a new run, restores the conversation message for message in
\* the same order; setupMessages then appends exactly one perception entry,
\* which carries the new prompt as follow-up, and no system or task preamble.
C19_ResumeRestoresConversation ==
  cLast = "resume"
    => /\ Len(cLog) = Len(cExported) + 1
       /\ SubSeq(cLog, 1, Len(cExported)) = cExported
       /\ Last(cLog).kind = "state"
       /\ Last(cLog).role = "user"
       /\ "user_follow_up_message" \in Last(cLog).tags

\* a conversation with a compact state message and a perception without
\* screenshot was exported and restored
C19_Witness ==
  /\ cLast = "resume"
  /\ Len(cExported) >= 4
  /\ \E i \in DOMAIN cExported : cExported[i].isState
  /\ \E i \in DOMAIN cExported : cExported[i].image = "undefined"

\* what each message of a conversation is, in order
Kinds(log) == [i \in DOMAIN log |-> log[i].kind]

\* C16: when the model call or the parsing of its response fails in a step
\* (step 0 of a fresh run, of a run with startUrl and of a resumed run
\* included), the only message removed is the perception entry that this
\* step appended: the conversation after the failure is the conversation
\* before the step appended anything.
C16_FailedStepLeavesConversation ==
  [][(~genFailed /\ genFailed') => Kinds(messages') = Kinds(logBefore)]_vars

\* C17: when generateAction fails the step is not retried: no action is
\* executed, the model is not called again, no later step begins, and the
\* failure is surfaced to the caller (run() rejects, the stream carries an
\* error event).
C17_FailedModelCallIsSurfaced ==
  genFailed
    => /\ LoopOver
       /\ action = "none"
       /\ actionExecs = step
       /\ modelCalls = step + 1
       /\ captureStarts = step + 1
       /\ (args.mode = "run" => runOutcome = "rejected")
       /\ ((args.mode = "stream" /\ ~cancelled)
             => (Len(events) > 0 /\ Last(events).type = "error"))

\* the perception and compact state entries of the conversation
StateEntries == {i \in DOMAIN messages : messages[i].kind \in {"state", "cstate"}}

\* C18: once addMessageFromModelOutput has returned (the model turn is the
\* last message and no recording is pending), every perception or state
\* entry other than the most recently appended one is reduced to a single
\* text part without image, the perception entries appended by setupMessages
\* included.
C18_OlderPerceptionsReduced ==
  (pendingAdds = {} /\ Len(messages) > 0 /\ Last(messages).kind = "assistant")
    => \A i \in StateEntries :
         (\E j \in StateEntries : j > i) => messages[i].image = "none"

\* C20: an action outcome with error set and isDone unset does not abort the
\* loop: the run goes on to the next step (it only ends at the step cap), and
\* the perception entry the next step hands to the model carries that error
\* inside the previous-action-error tag, not in the previous-action-output or
\* user-follow-up tag.
C20_ActionErrorReachesNextStep ==
  /\ (pcLoop = "model" /\ result # NoResult /\ result.error)
       => /\ Last(seenAtCall).kind = "state"
          /\ Last(seenAtCall).tags = {"previous_action_error"}
  /\ (LoopOver /\ result.error /\ ~result.isDone /\ ~stepFailed /\ ~cancelled
        /\ ~timeoutFound)
       => step >= MaxSteps

\* step 1 calls the model after the action of step 0 returned an error
C20_Witness ==
  /\ pcLoop = "model"
  /\ step = 1
  /\ result.error
  /\ ~result.isDone
  /\ result.src = 1
  /\ "previous_action_error" \in Last(seenAtCall).tags

\* C21: executeAction with a name that is not registered fails without
\* invoking any handler, and a handler that throws makes executeAction fail
\* with an error whose message carries the action name; in both cases no
\* outcome is returned for the step and the loop does not retry the action
\* (no further handler, model call or capture is started).
C21_ExecuteActionFailures ==
  execError # NoError
    => /\ LoopOver
       /\ execError.name # ""
       /\ (execError.name \notin RegisteredActions => actionExecs = step)
       /\ (execError.name \in RegisteredActions
             => (execError.kind = "Error executing action"
                 /\ actionExecs = step + 1))
       /\ result.src <= step
       /\ modelCalls = step + 1
       /\ captureStarts = step + 1
       /\ action = "none"

\* the handler of a browser action threw in step 1
C21_Witness ==
  /\ execError = ExecutionError("browse")
  /\ step = 1
  /\ actionExecs = 2

\* C29: one updateState call makes at most 3 capture attempts, the first
\* without delay; attempt i+1 is started only when attempt i has failed, after
\* the backoff delay, so two attempts of a call are never in flight together.
C29_AttemptsBoundedAndSequential ==
  /\ attemptNo <= NumOfAttempts
  /\ attemptsMade <= NumOfAttempts
  /\ (attemptNo > 0 => attemptsMade = attemptNo)
  /\ (attemptNo = 1 => delayBefore = 0)
  /\ (attemptNo > 1 => (delayBefore >= StartingDelay /\ attemptNo - 1 <= failScript))
  /\ lastCall.retries <= NumOfAttempts - 1

\* the third attempt of a call is in flight, 750 ms after the second failed
C29_Witness ==
  /\ attemptNo = NumOfAttempts
  /\ attemptsMade = NumOfAttempts
  /\ delayBefore = 750

\* C30: every model call of a step, step 0 of a fresh run without startUrl
\* included, is made on a conversation whose last message is the perception
\* entry that this step appended from the state its own updateState returned.
C30_ModelCallSeesOwnPerception ==
  pcLoop = "model"
    => /\ Len(seenAtCall) = Len(logBefore) + 1
       /\ Last(seenAtCall).kind = "state"

\* C22: executeAction adds the browser handle to the params it passes to the
\* handler exactly if the action was registered with browserContext = true;
\* the handler of an action registered without it receives exactly the
\* parameters the model supplied; the params recorded in the assistant
\* message never contain the browser handle.
C22_BrowserHandleOnlyForBrowserActions ==
  /\ kPc.executed = "handler"
       => /\ (kHandlerGot.browser = "handle") <=> kRegistry[kAction.name]
          /\ kHandlerGot.keys = kAction.params.keys
          /\ (~kRegistry[kAction.name]
                => kHandlerGot = ParamsOrEmpty(kAction.params))
  /\ kPc.recorded = "yes"
       => /\ kRecorded.browser # "handle"
          /\ kRecorded.keys = kAction.params.keys

\* a browser action whose params the model filled with its own "browser"
\* value: the handler got the handle, the shared params object holds it, the
\* assistant message does not
C22_Witness ==
  /\ kAction.name = "click_element"
  /\ kAction.params.browser = "model"
  /\ kAction.params.keys = {"index"}
  /\ kPc = [recorded |-> "yes", executed |-> "handler"]
  /\ kHandlerGot.browser = "handle"
  /\ kParams.browser = "handle"
  /\ kRecorded = [given |-> TRUE, keys |-> {"index"}, browser |-> "absent"]

RectArea(r) == (r.right - r.left) * (r.bottom - r.top)

\* the interiors of the two rectangles do not meet
Disjoint(r1, r2) ==
  \/ r1.right <= r2.left
  \/ r2.right <= r1.left
  \/ r1.bottom <= r2.top
  \/ r2.bottom <= r1.top

SameQuotient(p, q) == p[1] * q[2] = q[1] * p[2]

IouInUnitInterval == iouOut[2] > 0 /\ 0 <= iouOut[1] /\ iouOut[1] <= iouOut[2]

IouZeroWhenDisjoint == Disjoint(rectA, rectB) => iouOut[1] = 0

IouSymmetric == SameQuotient(CalculateIou(rectB, rectA), iouOut)

\* C28 as stated: for all rectangles over bounded integer coordinates,
\* calculateIou(a, a) = 1, the result is 0 for disjoint rectangles, it is
\* symmetric in its arguments, and it lies in [0, 1].
C28_IouProperties ==
  /\ (rectA = rectB => iouOut[1] = iouOut[2])
  /\ IouZeroWhenDisjoint
  /\ IouSymmetric
  /\ IouInUnitInterval

\* C28 amended: calculateIou(a, a) = 1 for every rectangle a of positive area
\* (it is 0 for an empty one); the result is 0 for disjoint rectangles,
\* symmetric in its arguments, and in [0, 1].
C28_IouPropertiesPositiveArea ==
  /\ (rectA = rectB /\ RectArea(rectA) > 0 => iouOut[1] = iouOut[2])
  /\ (rectA = rectB /\ RectArea(rectA) = 0 => iouOut[1] = 0)
  /\ IouZeroWhenDisjoint
  /\ IouSymmetric
  /\ IouInUnitInterval

\* a rectangle of area 2 compared with itself
C28_Witness ==
  /\ rectA = Rect(1, 0, 1, 2)
  /\ rectB = rectA
  /\ iouOut = <<2, 2>>

InputTops == {gElems[k].rect.top : k \in 1..Len(gElems)}

\* no two neighbouring top edges of the list between those of x and y are
\* more than ROW_THRESHOLD apart
SameRow(x, y) ==
  LET lo == Min(x.rect.top, y.rect.top)
      hi == Max(x.rect.top, y.rect.top)
  IN \A a \in InputTops, b \in InputTops :
       (/\ lo <= a
        /\ a < b
        /\ b <= hi
        /\ ~ \E c \in InputTops : a < c /\ c < b)
         => b - a <= RowThreshold

\* C25: sortElementsByPosition returns a permutation of its input, grouped
\* into rows by top edge with a tolerance of 20 pixels measured against the
\* element added last to the current row; rows come top to bottom, each row
\* in ascending order of the left edge, and index is reassigned 0..n-1.
C25_SortedIntoRows ==
  gPhase = "sortElementsByPosition"
    => /\ Len(gOut) = Len(gElems)
       /\ \A i \in 1..Len(gOut) : \E k \in 1..Len(gElems) : gOut[i] = gElems[k]
       /\ \A i \in 1..Len(gOut), j \in 1..Len(gOut) :
            i # j => gOut[i].id # gOut[j].id
       /\ \A i \in 1..Len(gOut) : gOut[i].index = i - 1
       /\ \A i \in 1..Len(gOut), j \in 1..Len(gOut) :
            i < j => IF SameRow(gOut[i], gOut[j])
                       THEN gOut[i].rect.left <= gOut[j].rect.left
                     ELSE gOut[i].rect.top < gOut[j].rect.top

\* three top edges, each within the tolerance of the one before it, form one
\* row: the lowest element comes first because it is the leftmost
C25_Witness ==
  /\ gPhase = "sortElementsByPosition"
  /\ Len(gOut) = 3
  /\ gOut[1].rect.top = 2 * TopStep /\ gOut[1].rect.left = 0
  /\ gOut[2].rect.top = 0 /\ gOut[2].rect.left = 1
  /\ gOut[3].rect.top = TopStep /\ gOut[3].rect.left = 1
  /\ 2 * TopStep > RowThreshold

\* C26: in filterOverlappingElements, a candidate that is fully contained in
\* an accepted element, covers at least 50% of its area and has a higher
\* weight replaces it: the container is removed and the candidate is kept.
\* Stated for a list of two elements, where the container is the only
\* element accepted when the candidate is examined.
C26_ContainedHeavierCandidateReplaces ==
  (gPhase = "filterOverlappingElements" /\ Len(gElems) = 2)
    => \A c \in 1..2, x \in 1..2 :
         (/\ c # x
          /\ IsFullyContained(gElems[c].rect, gElems[x].rect)
          /\ AtLeastHalf(gElems[c], gElems[x])
          /\ gElems[c].weight > gElems[x].weight)
           => gOut = <<gElems[c]>>

\* C27: filterOverlappingElements never accepts a candidate whose IoU with an
\* element accepted at that moment exceeds the threshold, so no two elements
\* of its result have an IoU above the threshold.
C27_NoTwoKeptOverlap ==
  gPhase = "filterOverlappingElements"
    => \A i \in 1..Len(gOut), j \in 1..Len(gOut) :
         i # j => ~IouExceeds(CalculateIou(gOut[i].rect, gOut[j].rect),
                              IouThreshold)

\* C23: filterElements is idempotent at a fixed threshold: applied to its own
\* result it returns the same elements, in the same order, with the same
\* indices.
C23_FilterElementsIdempotent ==
  gPhase = "filterElements twice" => gOut = gFirst

Orderings(n) ==
  {f \in [1..n -> 1..n] : \A i \in 1..n, j \in 1..n : f[i] = f[j] => i = j}

Permuted(s, f) == [k \in 1..Len(s) |-> s[f[k]]]

\* what is kept, and under which index, whichever of several equal elements it is
KeptValues(out) ==
  {[rect |-> out[k].rect, weight |-> out[k].weight, index |-> out[k].index] :
     k \in 1..Len(out)}

\* C24: the result of filterElements does not depend on the order of its
\* input: every permutation of the list gives the same kept elements with the
\* same indices.
C24_FilterElementsOrderIndependent ==
  gPhase = "filterElements"
    => \A f \in Orderings(Len(gElems)) :
         KeptValues(FilterElements(Permuted(gElems, f), IouThreshold))
           = KeptValues(gOut)

\* C33: a model response that parses as JSON but has no action, or an action
\* without params, is rejected as malformed output: the step fails without
\* executing an action, no compact state message or assistant message is
\* appended for it (at once or later), and the conversation after the failure
\* equals the conversation before the step.
C33_MalformedOutputRejected ==
  malformed # "none"
    => /\ LoopOver
       /\ stepFailed
       /\ action = "none"
       /\ actionExecs = step
       /\ Kinds(messages) = Kinds(logBefore)
       /\ \A k \in pendingAdds : k.step # step

\* C37: in runStream, whenever the action outcome of a step has isDone = true
\* the terminal event of the stream is final_output carrying that outcome,
\* also when the timeout is found exceeded after that same step.
C37_DoneStepEndsStreamWithFinalOutput ==
  (args.mode = "stream" /\ result.isDone /\ ~cancelled /\ pcLoop = "end")
    => /\ Len(events) > 0
       /\ Last(events) = Event("final_output", result, result.src)

\* C38: between the steps of a run (stated for batch mode) every compact
\* state message is immediately followed by an assistant message, no full
\* perception entry appended by step() remains, and a successful step n >= 1
\* with a non-empty screenshot has grown the log by exactly the compact state
\* message and the assistant message.
C38_LogBetweenSteps ==
  [][(args.mode = "run" /\ step' = step + 1)
       => /\ \A i \in DOMAIN messages' :
               messages'[i].isState
                 => (i < Len(messages') /\ messages'[i + 1].role = "assistant")
          /\ Cardinality({i \in DOMAIN messages' : messages'[i].kind = "state"})
               = Cardinality({i \in DOMAIN logBefore : logBefore[i].kind = "state"})
          /\ (step >= 1 /\ stepState = "snap")
               => Kinds(messages') = Kinds(logBefore) \o <<"cstate", "assistant">>]_vars

\* C39: once a fresh run (stated for batch mode) has seeded the conversation,
\* in every reachable state the log is non-empty, its message 0 is the single
\* system message and its message 1 is the task prompt: removeLastMessage
\* never removes either.
C39_PreambleStaysInPlace ==
  (args.mode = "run" /\ ~args.resume /\ pcSetup \notin {"idle", "sys"})
    => /\ Len(messages) >= 2
       /\ messages[1].kind = "system"
       /\ messages[2].kind = "task"
       /\ Cardinality({i \in DOMAIN messages : messages[i].kind = "system"}) = 1

\* C40: Agent.run called with neither a prompt nor an agentState rejects
\* before any browser launch, capture or model call and leaves the
\* conversation and the browser untouched; the error reaches the caller.
C40_RunWithoutPromptRejects ==
  (args.mode = "run" /\ ~args.prompt /\ ~args.resume)
    => /\ pcLoop \in {"idle", "end"}
       /\ (pcLoop = "end" => runOutcome = "rejected")
       /\ pcSetup = "idle"
       /\ browser = [open |-> FALSE, state |-> "init"]
       /\ closeCalls = 0
       /\ messages = <<>>
       /\ pendingAdds = {}
       /\ captureStarts = 0
       /\ modelCalls = 0
       /\ actionExecs = 0

\* the call has been made and has rejected
C40_Witness ==
  /\ args.mode = "run"
  /\ ~args.prompt
  /\ ~args.resume
  /\ pcLoop = "end"
  /\ runOutcome = "rejected"

\* C32: in filterOverlappingElements an accepted container is evicted only if
\* the candidate contained in it covers at least 50% of its area and has a
\* strictly greater weight, whatever the z-indices. Stated for the first
\* element of the sorted array, which is accepted first and can only leave
\* the result by eviction.
C32_EvictionNeedsHeavierCandidate ==
  (gPhase = "filterOverlappingElements" /\ Len(gElems) >= 1)
    => ((\A i \in DOMAIN gOut : gOut[i].id # gElems[1].id)
          => \E c \in 2..Len(gElems) :
               /\ IsFullyContained(gElems[c].rect, gElems[1].rect)
               /\ AtLeastHalf(gElems[c], gElems[1])
               /\ gElems[c].weight > gElems[1].weight)

\* C36: AISdkAdapter.call retries the primary provider only after errors with
\* status 429 or >= 500, makes at most the configured number of attempts
\* (default 3), and calls the fallback provider only after the primary has
\* failed persistently, that is after the attempts on a retryable error are
\* used up.
RetryableStatus(status) == status = TooManyRequests \/ status >= ServerError

FallbackCalled == aPc = "fallback" \/ aFallback # <<>> \/ aResult = "fallback"

C36_RetryThenFallback ==
  /\ \A i \in 1..(Len(aPrimary) - 1) : RetryableStatus(aPrimary[i])
  /\ Len(aPrimary) <= AttemptsOf(aOptions)
  /\ (FallbackCalled /\ ~aOptions.noRetry)
       => /\ Len(aPrimary) = AttemptsOf(aOptions)
          /\ RetryableStatus(aPrimary[Len(aPrimary)])

\* C35: for every screenshot of at least 15 x 17 pixels and every element
\* rectangle, also after the label was moved below a label it overlaps, the
\* 14 x 16 label that is drawn lies inside the image, and the rectangle
\* recorded in placedLabels is the rectangle drawn.
DrawnInside(d) ==
  /\ 0 <= d.x
  /\ d.x + LabelWidth < lImage.width
  /\ 0 <= d.y
  /\ d.y + LabelHeight < lImage.height

C35_LabelInsideAndRecorded ==
  \A i \in DOMAIN lDrawn :
    /\ DrawnInside(lDrawn[i])
    /\ lPlaced[i] = Label(lDrawn[i].x, lDrawn[i].y)

\* C31: the elements of every snapshot produced by a successful capture cycle
\* are the output of filterElements over the elements detected in that cycle:
\* no element of the previous snapshot is carried over and no detected
\* element is lost to another with the same index, whether or not a detector
\* is configured.
C31_SnapshotElementsAreFiltered ==
  yOutcome = "fresh"
    => yState.interactiveElements = FilterElements(yCandidates, IouThreshold)

\* C34: putHighlightElementsOnScreenshot never throws: on an internal error it
\* returns the input image unchanged, so a failed annotation never fails a
\* capture attempt, never triggers a retry and never causes the stale
\* fallback.
C34_AnnotationFailureIsHarmless ==
  yAnnotation = "failed"
    => /\ yThrew # "annotation"
       /\ yThrew = "none"
            => /\ yOutcome = "fresh"
               /\ yState.screenshot = Screenshot(yCycles, FALSE)
               /\ yState.screenshotWithHighlights = yState.screenshot

\* a capture cycle whose annotation failed has returned its own snapshot
C34_Witness ==
  /\ yAnnotation = "failed"
  /\ yOutcome = "fresh"
  /\ yCycles = MaxCycles
  /\ yState.screenshotWithHighlights = Screenshot(MaxCycles, FALSE)

====
